---------------------------- MODULE Spec2Model ----------------------------
(***************************************************************************)
(* A state-machine model of the video mixer base class                     *)
(* (gst/videomixer/basemixer/gstbasemixer.c) and of the positioned mixer   *)
(* built on it (gst/videomixer/videomixer2.c).                             *)
(*                                                                         *)
(* Clock times are guint64 nanoseconds in the source.  The model keeps the *)
(* unsigned wrap-around arithmetic but on ClockBits bits, and one second   *)
(* is SECOND clock units, so that the state space stays finite.            *)
(***************************************************************************)
EXTENDS Integers, Sequences, FiniteSets, TLC

(***************************************************************************)
(* Bounds of the model.                                                    *)
(***************************************************************************)
\* width of a clock value (64 in the source)
ClockBits == 8
\* clock units per second (10^9 in the source)
SECOND == 10
\* the aggregate loop is explored while the output end time is <= MaxT
MaxT == 10
\* upstream buffer timestamps and durations are multiples of TsStep
TsStep == 5
\* largest upstream buffer timestamp
MaxBufTs == 5
\* duration of the upstream buffers that have a positive one
BufDuration == 2
\* number of request pads that exist at the same time
MaxPads == 3
\* number of pads of the mixer that is explored with every kind of upstream
\* buffer, with seeks, flushes and state changes
StreamPads == 1
\* number of pads of the mixer that is explored until end-of-stream
LivePads == 2
\* largest value written to a pad's zorder property
MaxZorder == 2
\* QoS observations are about the times 0 and QosStep and report a frame
\* that was QosStep late, on time or QosStep early
QosStep == 2
\* number of pads of the mixer whose negotiation is explored
NegPads == 2
\* a pad is moved by PosStep to the right or the left, down or up
PosStep == 50
\* number of arrivals a pad counts
MaxArrivals == 3
\* the stop of the seeks that set one
SeekStop == 1
\* number of frames after a seek where the end of the streams is explored
MaxFrames == 4
\* number of pads of the mixer whose format election is explored, the
\* largest number of pads of all
ElectPads == 4

(***************************************************************************)
(* Program constants.                                                      *)
(***************************************************************************)
DEFAULT_PAD_ZORDER == 0
DEFAULT_PAD_XPOS == 0
DEFAULT_PAD_YPOS == 0

W64 == 2 ^ ClockBits
\* GST_CLOCK_TIME_NONE, written -1 in the source
NONE == W64 - 1

UAdd(a, b) == (a + b) % W64
USub(a, b) == (a - b + W64) % W64
UMul(a, b) == (a * b) % W64
Min(a, b) == IF a < b THEN a ELSE b
Max(a, b) == IF a > b THEN a ELSE b

\* gst_util_uint64_scale_round (val, num, denom): val * num / denom rounded
\* to nearest; a zero denominator fails the precondition and yields
\* G_MAXUINT64
ScaleRound(val, num, denom) ==
  IF denom = 0 THEN NONE ELSE ((val * num + denom \div 2) \div denom) % W64

(***************************************************************************)
(* Video formats and video info.                                           *)
(***************************************************************************)
UNKNOWN == "UNKNOWN"
AlphaFormats == {"AYUV", "BGRA", "ARGB", "RGBA", "ABGR"}
\* FORMATS, in the order of the pad templates
FormatList ==
  <<"AYUV", "BGRA", "ARGB", "RGBA", "ABGR", "Y444", "Y42B", "YUY2", "UYVY",
    "YVYU", "I420", "YV12", "NV12", "NV21", "Y41B", "RGB", "BGR", "xRGB",
    "xBGR", "RGBx", "BGRx">>
Formats == {FormatList[i] : i \in 1..Len(FormatList)}
HasAlpha(f) == f \in AlphaFormats

\* gst_video_info_init
InfoInit ==
  [format |-> UNKNOWN, width |-> 0, height |-> 0, fps_n |-> 0, fps_d |-> 1,
   par_n |-> 1, par_d |-> 1, interlace |-> "progressive",
   colorimetry |-> "default", chroma |-> "default"]
\* gst_video_info_set_format: format, size and the format's default
\* colorimetry and chroma siting; framerate and aspect ratio are kept
SetFormat(info, f, w, h) ==
  [info EXCEPT !.format = f, !.width = w, !.height = h,
               !.colorimetry = "default", !.chroma = "default"]
\* a pad's info before reset or caps: zero-filled instance memory
InfoZero == [InfoInit EXCEPT !.fps_d = 0, !.par_n = 0, !.par_d = 0]
\* the info gst_video_info_from_caps parses from progressive caps of
\* square pixels
MkInfo(f, w, h, n, d) ==
  [SetFormat(InfoInit, f, w, h) EXCEPT !.fps_n = n, !.fps_d = d]

(***************************************************************************)
(* Pads.                                                                   *)
(***************************************************************************)
PadIds == 1..ElectPads
\* a buffer: its timestamp and duration, and n, the rank of its arrival on
\* the pad where the arrivals are counted (0 elsewhere)
NoBuf == [ts |-> NONE, duration |-> NONE, set |-> FALSE, n |-> 0]
Buf(ts, d) == [ts |-> ts, duration |-> d, set |-> TRUE, n |-> 0]

\* GstSegment of a sink pad as gst_segment_init leaves it
PadSegment == [start |-> 0, stop |-> NONE, base |-> 0]
\* gst_segment_to_running_time for a forward segment of rate 1
ToRunningTime(seg, t) ==
  IF t = NONE \/ t < seg.start \/ (seg.stop # NONE /\ t > seg.stop) THEN NONE
  ELSE UAdd(USub(t, seg.start), seg.base)

\* gst_basemixer_pad_init, gst_videomixer2_pad_init and the start of
\* gst_basemixer_request_new_pad
PadInit(z) ==
  [zorder |-> z, xpos |-> DEFAULT_PAD_XPOS, ypos |-> DEFAULT_PAD_YPOS,
   info |-> InfoZero, convert |-> FALSE, need_conversion_update |-> FALSE,
   buffer |-> NoBuf, queued |-> NoBuf, start_time |-> NONE, end_time |-> NONE,
   eos |-> FALSE, pending |-> NoBuf,
   \* history: the arrivals counted, and the last promotion of a counted
   \* buffer (how many there were, the buffer's rank, the end_time it got)
   arrived |-> 0, taken |-> [count |-> 0, n |-> 0, end |-> NONE],
   \* the tag event the pad's thread is handling: the list it merged and
   \* has not stored yet ("merged"), or that it stored ("stored")
   merging |-> [at |-> "", tags |-> {}],
   \* has the host attached a control binding to the zorder property
   zorder_bound |-> FALSE,
   \* where the pad's caps handler is: "unlocked" once it has updated the
   \* converters and released the lock, before it updates the output caps
   setcaps |-> ""]

(***************************************************************************)
(* State.                                                                  *)
(***************************************************************************)
VARIABLES
  sinkpads,   \* mix->sinkpads: the pads in list order
  numpads,    \* mix->numpads
  pad,        \* the fields of every pad (and of its aggregator pad)
  mix,        \* the fields of the mixer and the output segment
  peer,       \* downstream: the formats it accepts, the reconfigure flag
  last,       \* the last handler that ran and what it returned and pushed
  pushed      \* timestamps of the last two buffers pushed downstream

vars == <<sinkpads, numpads, pad, mix, peer, last, pushed>>

\* gst_segment_init (&agg->segment, GST_FORMAT_TIME)
SegmentInit == [start |-> 0, stop |-> NONE, position |-> 0, rate |-> 1]

InList(p) == \E i \in 1..Len(sinkpads) : sinkpads[i] = p

(***************************************************************************)
(* gst_basemixer_fill_queues                                               *)
(***************************************************************************)
OK == 1
NEED_MORE_DATA == 0
EOS == -1
ERROR == -2

\* is the interval outside the pad's segment (line 814)
OutsideSegment(start_time, end_time, seg) ==
  start_time >= seg.stop \/ end_time < seg.start

\* a time clipped to the pad's segment, converted to running time and to the
\* output rate (lines 833-847)
ClipStart(start_time, seg) == Max(start_time, seg.start)
ClipEnd(end_time, seg) ==
  IF seg.stop # NONE THEN Min(end_time, seg.stop) ELSE end_time
ToOutputTime(t, seg, rate) ==
  IF rate # 1 THEN UMul(ToRunningTime(seg, t), rate) ELSE ToRunningTime(seg, t)

\* the candidate buffer buf with its start and its duration (lines 811-847)
CandidateOf(fromq, buf, start_time, duration, seg, rate) ==
  [fromq |-> fromq, buf |-> buf,
   outside |-> OutsideSegment(start_time, UAdd(duration, start_time), seg),
   start |-> ToOutputTime(ClipStart(start_time, seg), seg, rate),
   end |-> ToOutputTime(ClipEnd(UAdd(duration, start_time), seg), seg, rate)]

\* the candidate buffer of pad P: the queued buffer, ended by the upstream
\* buffer's start, or the upstream buffer itself (lines 791-809)
Candidate(P, rate) ==
  IF P.queued.set
  THEN CandidateOf(TRUE, P.queued, P.queued.ts,
                   USub(P.pending.ts, P.queued.ts), PadSegment, rate)
  ELSE CandidateOf(FALSE, P.pending, P.pending.ts, P.pending.duration,
                   PadSegment, rate)

\* a test that forgets the interval's start
TakeBufferBeforeEnd(start_time, end_time, output_start_time, output_end_time) ==
  start_time < output_end_time

\* does the candidate interval belong to the output interval (line 862)
TakeBuffer(start_time, end_time, output_start_time, output_end_time) ==
  end_time >= output_start_time /\ start_time < output_end_time

\* a test that forgets the queued buffer
FromThePastOfBuffer(P) == P.buffer.set /\ P.pending.ts < P.buffer.ts

\* is the new buffer older than the current or the queued one (lines 783-784)
FromThePast(P) ==
  \/ P.buffer.set /\ P.pending.ts < P.buffer.ts
  \/ P.queued.set /\ P.pending.ts < P.queued.ts

\* a test that lets every candidate pass
OlderNever(P, c) == FALSE

\* does the candidate end before the pad's current buffer (line 849)
Older(P, c) == P.end_time # NONE /\ P.end_time > c.end

\* what a pad without upstream buffer does to the eos flag (lines 902-904)
HoldsAtEos(P, output_start_time) ==
  P.end_time > output_start_time /\ P.eos

\* the comparison of line 895 turned around
ExpiredTurned(P, output_start_time) == P.end_time >= output_start_time

\* must a pad without upstream buffer give up its current one (line 895)
Expired(P, output_start_time) == P.end_time <= output_start_time

\* the pad once a candidate that came from pad->queued is dropped
Unqueue(P, c) == IF c.fromq THEN [P EXCEPT !.queued = NoBuf] ELSE P

\* the pad once the candidate is its current buffer (lines 866-877)
Promote(P, c) ==
  [Unqueue(P, c) EXCEPT !.buffer = c.buf, !.start_time = c.start,
                        !.end_time = c.end,
                        !.taken = IF c.buf.n > 0
                                  THEN [count |-> Min(@.count + 1, MaxArrivals),
                                        n |-> c.buf.n, end |-> c.end]
                                  ELSE @]

\* the pad once its current buffer is given up (lines 896-897)
ClearBuffer(P) ==
  [P EXCEPT !.buffer = NoBuf, !.start_time = NONE, !.end_time = NONE]

\* what one iteration of the loop over the pads gives: the pad afterwards,
\* whether it asked for more data, whether it cleared the eos flag, whether
\* it failed, and the branch taken
Iteration(P, need_more_data, live, error, verdict) ==
  [pad |-> P, need_more_data |-> need_more_data, live |-> live,
   error |-> error, verdict |-> verdict]

\* the iteration for a pad with an upstream buffer and candidate c (lines
\* 769-891)
FillFromBuffer(P, c, output_start_time, output_end_time) ==
  IF P.pending.ts = NONE THEN Iteration(P, FALSE, FALSE, TRUE, "error")
  ELSE IF FromThePast(P) THEN Iteration(P, TRUE, FALSE, FALSE, "past")
  ELSE IF ~c.fromq /\ P.pending.duration = NONE THEN
    Iteration([P EXCEPT !.queued = P.pending], TRUE, FALSE, FALSE, "queue")
  ELSE IF c.outside THEN Iteration(Unqueue(P, c), TRUE, FALSE, FALSE, "outside")
  ELSE IF Older(P, c) THEN
    Iteration(Unqueue(P, c), TRUE, FALSE, FALSE, "older")
  ELSE IF TakeBuffer(c.start, c.end, output_start_time, output_end_time) THEN
    Iteration(Promote(P, c), FALSE, TRUE, FALSE, "take")
  ELSE IF c.start >= output_end_time THEN
    Iteration(P, FALSE, TRUE, FALSE, "keep")
  ELSE Iteration(Unqueue(P, c), TRUE, FALSE, FALSE, "old")

\* the iteration for a pad without upstream buffer (lines 892-906)
FillFromNothing(P, output_start_time) ==
  IF P.end_time # NONE THEN
    IF Expired(P, output_start_time) THEN
      Iteration(ClearBuffer(P), P.eos, FALSE, FALSE, "clear")
    ELSE IF HoldsAtEos(P, output_start_time) THEN
      Iteration(P, FALSE, TRUE, FALSE, "hold")
    ELSE Iteration(P, FALSE, FALSE, FALSE, "idle")
  ELSE Iteration(P, FALSE, FALSE, FALSE, "none")

\* one iteration of the loop over the pads (lines 757-907)
FillPad(P, output_start_time, output_end_time, rate) ==
  IF P.pending.set
  THEN FillFromBuffer(P, Candidate(P, rate), output_start_time,
                      output_end_time)
  ELSE FillFromNothing(P, output_start_time)

\* the loop's state after the iteration f of pad p
Iterated(st, p, f) ==
  [pad |-> [st.pad EXCEPT ![p] = f.pad],
   need_more_data |-> st.need_more_data \/ f.need_more_data,
   eos |-> st.eos /\ ~f.live,
   error |-> f.error,
   verdict |-> [st.verdict EXCEPT ![p] = f.verdict]]

\* the loop over mix->sinkpads from index i on; it returns at once on a
\* buffer without timestamp (line 776)
RECURSIVE FillFrom(_, _, _, _, _, _)
FillFrom(i, list, st, output_start_time, output_end_time, rate) ==
  IF i > Len(list) \/ st.error THEN st
  ELSE FillFrom(i + 1, list,
         Iterated(st, list[i],
                  FillPad(st.pad[list[i]], output_start_time, output_end_time,
                          rate)),
         output_start_time, output_end_time, rate)

\* a result that looks at need_more_data before the error
FillResultNeedFirst(st) ==
  IF st.need_more_data THEN NEED_MORE_DATA
  ELSE IF st.error THEN ERROR
  ELSE IF st.eos THEN EOS
  ELSE OK

\* the value gst_basemixer_fill_queues returns (lines 909-914)
FillResult(st) ==
  IF st.error THEN ERROR
  ELSE IF st.need_more_data THEN NEED_MORE_DATA
  ELSE IF st.eos THEN EOS
  ELSE OK

NoVerdict == [p \in PadIds |-> "none"]

\* what the loop leaves: the pads, the returned value, the branches taken
FillOutcome(st) ==
  [pad |-> st.pad, res |-> FillResult(st), verdict |-> st.verdict]

FillQueues(pads, list, output_start_time, output_end_time, rate) ==
  FillOutcome(FillFrom(1, list,
                [pad |-> pads, need_more_data |-> FALSE, eos |-> TRUE,
                 error |-> FALSE, verdict |-> NoVerdict],
                output_start_time, output_end_time, rate))

(***************************************************************************)
(* Negotiation.                                                            *)
(***************************************************************************)
\* is the pad's format known (info.finfo set and not the unknown format)
Negotiated(P) == P.info.format # UNKNOWN

\* a fixation to a format outside the pad templates
FixateToGray(formats) == SetFormat(InfoInit, "GRAY8", 1, 1)

\* gst_caps_fixate of the downstream caps: the first format downstream
\* lists, the smallest size and rate
FixateDownstream(formats) ==
  LET i == CHOOSE k \in 1..Len(FormatList) :
             /\ FormatList[k] \in formats
             /\ \A j \in 1..(k - 1) : FormatList[j] \notin formats
  IN SetFormat(InfoInit, FormatList[i], 1, 1)

\* a comparison that also lets a format that ties with the best one win
TiesOrBeatsBest(format_number, best_format_number) ==
  format_number >= best_format_number

\* does the count of the pad's format beat the best count so far (line 331)
BeatsBest(format_number, best_format_number) ==
  format_number > best_format_number

\* first loop of gst_basemixer_update_converters (lines 282-336) from index
\* i on: counts the formats downstream accepts and elects the best one
RECURSIVE ElectFrom(_, _, _, _, _)
ElectFrom(i, list, pads, formats, st) ==
  IF i > Len(list) THEN st
  ELSE
    LET P == pads[list[i]]
        f == P.info.format
        alpha == HasAlpha(f)
        st1 == [st EXCEPT !.at_least_one_alpha = @ \/ alpha]
        n == st.count[f] + 1
        st2 == [st1 EXCEPT !.count[f] = n]
        next ==
          IF ~Negotiated(P) THEN st
          ELSE IF st.need_alpha /\ ~alpha THEN st1
          ELSE IF f \notin formats THEN st1
          ELSE IF ~st.need_alpha /\ alpha THEN
            [st2 EXCEPT !.need_alpha = TRUE, !.best_info = P.info,
                        !.best_format_number = n]
          ELSE IF BeatsBest(n, st.best_format_number) THEN
            [st2 EXCEPT !.best_info = P.info, !.best_format_number = n]
          ELSE st2
    IN ElectFrom(i + 1, list, pads, formats, next)

\* the elected info, or the fixated downstream caps when no pad's format was
\* elected (lines 340-344)
Elected(st, formats) ==
  [at_least_one_alpha |-> st.at_least_one_alpha,
   best_info |-> IF st.best_info.format = UNKNOWN
                 THEN FixateDownstream(formats) ELSE st.best_info]

\* the format election (lines 268-344)
BestInfo(list, pads, formats) ==
  Elected(ElectFrom(1, list, pads, formats,
            [need_alpha |-> FALSE, at_least_one_alpha |-> FALSE,
             best_info |-> InfoInit, best_format_number |-> 0,
             count |-> [f \in Formats \cup {UNKNOWN} |-> 0]]),
          formats)

\* a test that looks at the format alone
NeedsConvertOfFormat(P, best_info) == best_info.format # P.info.format

\* a test that looks at the converter the pad has
NeedsConvertToggled(P, best_info) == ~P.convert

\* does a pad need a converter to the output info (lines 385-387)
NeedsConvert(P, best_info) ==
  \/ best_info.format # P.info.format
  \/ P.info.colorimetry # best_info.colorimetry
  \/ P.info.chroma # best_info.chroma

\* the info gst_basemixer_update_converters stores in mix->info (line 358)
StoredInfo(m, best_info) == best_info

\* the second loop of gst_basemixer_update_converters (lines 365-403)
SetConverters(list, pads, best_info) ==
  [p \in PadIds |->
    IF (\E i \in 1..Len(list) : list[i] = p) /\ Negotiated(pads[p])
    THEN IF NeedsConvert(pads[p], best_info)
         THEN [pads[p] EXCEPT !.convert = TRUE, !.need_conversion_update = TRUE]
         ELSE [pads[p] EXCEPT !.convert = FALSE]
    ELSE pads[p]]

\* an update that does not look at the alpha channels
ConvertToAnyway(list, pads, m, b) ==
  [ok |-> TRUE,
   mix |-> [m EXCEPT !.info = StoredInfo(m, b.best_info)],
   pad |-> SetConverters(list, pads, b.best_info)]

\* gst_basemixer_update_converters once the election gave b (lines 348-406)
ConvertTo(list, pads, m, b) ==
  IF b.at_least_one_alpha /\ ~HasAlpha(b.best_info.format)
  THEN [ok |-> FALSE, pad |-> pads, mix |-> m]
  ELSE [ok |-> TRUE,
        mix |-> [m EXCEPT !.info = StoredInfo(m, b.best_info)],
        pad |-> SetConverters(list, pads, b.best_info)]

\* gst_basemixer_update_converters: [ok, pad, mix]
UpdateConverters(list, pads, m, formats) ==
  IF formats = {} THEN [ok |-> FALSE, pad |-> pads, mix |-> m]
  ELSE ConvertTo(list, pads, m, BestInfo(list, pads, formats))

\* gst_basemixer_update_qos
UpdateQos(m, proportion, diff, timestamp) ==
  [m EXCEPT !.proportion = proportion,
            !.earliest_time =
              IF timestamp # NONE THEN
                IF diff > 0
                THEN UAdd(UAdd(timestamp, 2 * diff),
                          ScaleRound(SECOND, m.info.fps_d, m.info.fps_n))
                ELSE UAdd(timestamp, diff + W64)
              ELSE NONE]

\* a reset of the observation that keeps the counters
ResetQosKeepsCounters(m) == UpdateQos(m, "1/2", 0, NONE)

\* gst_basemixer_reset_qos; the proportion 0.5 is written "1/2"
ResetQos(m) ==
  [UpdateQos(m, "1/2", 0, NONE) EXCEPT !.qos_processed = 0, !.qos_dropped = 0]

\* the cadence is anchored again at the current position (lines 179-182 and
\* 1488-1491)
Reanchor(m) ==
  IF m.segment.position # NONE
  THEN [m EXCEPT !.ts_offset = USub(m.segment.position, m.segment.start),
                 !.nframes = 0]
  ELSE m

\* mix->current_caps when it is NULL; caps are written <<info>>
NoCaps == <<>>

\* gst_basemixer_src_setcaps with the caps of info
SrcSetcaps(m, info) ==
  LET m1 == IF m.info.fps_n # info.fps_n \/ m.info.fps_d # info.fps_d
            THEN ResetQos(Reanchor(m)) ELSE m
      m2 == [m1 EXCEPT !.info = info]
  IN IF m.current_caps = NoCaps \/ m.current_caps # <<info>>
     THEN [m2 EXCEPT !.current_caps = <<info>>, !.send_caps = TRUE]
     ELSE m2

\* a comparison that prefers the smaller framerate
FpsGreater(a, b, c, d) ==
  (IF b = 0 THEN 0 ELSE a) * (IF d = 0 THEN 1 ELSE d)
    > (IF d = 0 THEN 0 ELSE c) * (IF b = 0 THEN 1 ELSE b)

\* is framerate a/b smaller than c/d, compared as doubles (line 159); a/0
\* counts as 0
FpsLess(a, b, c, d) ==
  LET x == IF b = 0 THEN 0 ELSE a
      y == IF b = 0 THEN 1 ELSE b
      u == IF d = 0 THEN 0 ELSE c
      v == IF d = 0 THEN 1 ELSE d
  IN x * v < u * y

\* the loop of gst_basemixer_update_src_caps (lines 132-164) from index i on
RECURSIVE BestSizeFrom(_, _, _, _)
BestSizeFrom(i, list, pads, st) ==
  IF i > Len(list) THEN st
  ELSE
    LET I == pads[list[i]].info
        st1 == [st EXCEPT !.best_width = Max(@, I.width),
                          !.best_height = Max(@, I.height)]
        next ==
          IF I.width = 0 \/ I.height = 0 THEN st
          ELSE IF st.best_fps_n = -1
                  \/ FpsLess(st.best_fps_n, st.best_fps_d, I.fps_n, I.fps_d)
          THEN [st1 EXCEPT !.best_fps_n = I.fps_n, !.best_fps_d = I.fps_d]
          ELSE st1
    IN BestSizeFrom(i + 1, list, pads, next)

\* the formats that have a case in the switch of set_functions
FunctionFormats ==
  {"AYUV", "ARGB", "BGRA", "ABGR", "RGBA", "Y444", "Y42B", "YUY2", "UYVY",
   "YVYU", "I420", "YV12", "NV12", "NV21", "Y41B", "RGB", "BGR", "xRGB",
   "xBGR", "RGBx", "BGRx"}

\* set_functions: the format whose pixel primitives are selected, "NULL"
\* when the format has none
SetFunctions(f) == IF f \in FunctionFormats THEN f ELSE "NULL"

\* the loop of gst_videomixer2_modify_src_pad_info (lines 432-451)
RECURSIVE PositionedSizeFrom(_, _, _, _)
PositionedSizeFrom(i, list, pads, st) ==
  IF i > Len(list) THEN st
  ELSE
    LET P == pads[list[i]]
        next ==
          IF P.info.width = 0 \/ P.info.height = 0 THEN st
          ELSE [best_width |-> Max(st.best_width, P.info.width + Max(P.xpos, 0)),
                best_height |-> Max(st.best_height, P.info.height + Max(P.ypos, 0))]
    IN PositionedSizeFrom(i + 1, list, pads, next)

\* a hook that selects the pixel primitives and leaves the size as it is
ModifiedInfoSameSize(info, b) ==
  IF b.best_width > 0 /\ b.best_height > 0
  THEN [ok |-> SetFunctions(info.format) # "NULL", info |-> info,
        functions |-> SetFunctions(info.format), called |-> TRUE]
  ELSE [ok |-> FALSE, info |-> info, functions |-> "NULL", called |-> FALSE]

\* gst_videomixer2_modify_src_pad_info once the loop gave b (lines 453-459)
ModifiedInfo(info, b) ==
  IF b.best_width > 0 /\ b.best_height > 0
  THEN [ok |-> SetFunctions(info.format) # "NULL",
        info |-> SetFormat(info, info.format, b.best_width, b.best_height),
        functions |-> SetFunctions(info.format), called |-> TRUE]
  ELSE [ok |-> FALSE, info |-> info, functions |-> "NULL", called |-> FALSE]

\* gst_videomixer2_modify_src_pad_info: [ok, info, functions, called]
ModifySrcPadInfo(list, pads, info) ==
  ModifiedInfo(info, PositionedSizeFrom(1, list, pads,
                       [best_width |-> -1, best_height |-> -1]))

\* must gst_basemixer_update_src_caps anchor the cadence again (lines
\* 177-178)
FramerateChanged(m, best_fps_n, best_fps_d) ==
  m.info.fps_n # best_fps_n \/ m.info.fps_d # best_fps_d

\* the framerate of the loop's result, 25/1 when it found none (lines
\* 166-170)
BestFps(b) ==
  IF b.best_fps_n <= 0 \/ b.best_fps_d <= 0
  THEN [n |-> 25, d |-> 1] ELSE [n |-> b.best_fps_n, d |-> b.best_fps_d]

\* the mixer once the cadence is anchored for framerate fps (lines 177-183)
Anchored(m, fps) == IF FramerateChanged(m, fps.n, fps.d) THEN Reanchor(m) ELSE m

\* the info of the new output caps (lines 184-190)
SrcInfo(m, b, fps) ==
  [SetFormat(InfoInit, m.info.format, b.best_width, b.best_height)
     EXCEPT !.fps_n = fps.n, !.fps_d = fps.d,
            !.par_n = m.info.par_n, !.par_d = m.info.par_d]

\* the mixer with the pixel primitives the subclass selected
WithFunctions(m, mod) ==
  IF mod.called THEN [m EXCEPT !.functions = mod.functions] ELSE m

\* the end of gst_basemixer_update_src_caps once the subclass gave mod (lines
\* 192-237)
SetSrcCaps(m, mod, formats) ==
  IF ~mod.ok THEN [ok |-> FALSE, mix |-> WithFunctions(m, mod)]
  ELSE IF mod.info.format \notin formats
  THEN [ok |-> FALSE, mix |-> WithFunctions(m, mod)]
  ELSE [ok |-> TRUE, mix |-> SrcSetcaps(WithFunctions(m, mod), mod.info)]

\* gst_basemixer_update_src_caps once the loop gave b and the framerate fps
\* (lines 172-240)
SrcCapsFor(list, pads, m, formats, b, fps) ==
  IF b.best_width > 0 /\ b.best_height > 0
  THEN SetSrcCaps(Anchored(m, fps),
                  ModifySrcPadInfo(list, pads, SrcInfo(m, b, fps)), formats)
  ELSE [ok |-> TRUE, mix |-> m]

\* gst_basemixer_update_src_caps once the loop gave b
SrcCapsOf(list, pads, m, formats, b) ==
  SrcCapsFor(list, pads, m, formats, b, BestFps(b))

\* gst_basemixer_update_src_caps: [ok, mix]
UpdateSrcCaps(list, pads, m, formats) ==
  SrcCapsOf(list, pads, m, formats,
            BestSizeFrom(1, list, pads,
              [best_width |-> -1, best_height |-> -1,
               best_fps_n |-> -1, best_fps_d |-> -1]))

\* what gst_basemixer_pad_sink_setcaps gives once the converters are
\* updated (lines 446-451)
SetcapsResult(c, u) ==
  [pad |-> c.pad, mix |-> IF c.ok THEN u.mix ELSE c.mix, ret |-> c.ok /\ u.ok]
SetcapsWith(list, formats, c) ==
  SetcapsResult(c, UpdateSrcCaps(list, c.pad, c.mix, formats))

\* gst_basemixer_pad_sink_setcaps from the update of the converters on
\* (lines 442-451), with the pad's new info in pads
PadSinkSetcaps(list, pads, m, formats) ==
  SetcapsWith(list, formats, UpdateConverters(list, pads, m, formats))

\* what gst_basemixer_release_pad gives once the converters are updated
\* (lines 1771-1783)
ReleaseWith(list, formats, c) ==
  IF c.mix.info.format # UNKNOWN
  THEN [pad |-> c.pad, mix |-> UpdateSrcCaps(list, c.pad, c.mix, formats).mix,
        updated |-> UpdateSrcCaps(list, c.pad, c.mix, formats).ok]
  ELSE [pad |-> c.pad, mix |-> c.mix, updated |-> FALSE]

\* gst_basemixer_release_pad from the update of the converters on, with the
\* pad already removed from list
Released(list, pads, m, formats) ==
  ReleaseWith(list, formats, UpdateConverters(list, pads, m, formats))

(***************************************************************************)
(* The pad list.                                                           *)
(***************************************************************************)
\* a comparison with its operands exchanged
PadZorderCompareExchanged(P1, P2) == P2.zorder - P1.zorder

\* pad_zorder_compare
PadZorderCompare(P1, P2) == P1.zorder - P2.zorder

\* g_slist_insert_sorted: before the first element that does not compare
\* smaller than the new one
InsertSorted(list, p, pads) ==
  LET before == {i \in 1..Len(list) :
                   \A j \in 1..i : PadZorderCompare(pads[p], pads[list[j]]) > 0}
      k == Cardinality(before)
  IN SubSeq(list, 1, k) \o <<p>> \o SubSeq(list, k + 1, Len(list))

\* a zorder write that leaves the list as it is
KeepOrder(list, pads) == list

\* g_slist_sort: a stable merge sort
RECURSIVE SortList(_, _)
SortList(list, pads) ==
  IF Len(list) <= 1 THEN list
  ELSE
    LET rest == SortList(Tail(list), pads)
        p == Head(list)
        before == {i \in 1..Len(rest) :
                     \A j \in 1..i : PadZorderCompare(pads[p], pads[rest[j]]) > 0}
        k == Cardinality(before)
    IN SubSeq(rest, 1, k) \o <<p>> \o SubSeq(rest, k + 1, Len(rest))

\* g_slist_remove
RemovePad(list, p) == SelectSeq(list, LAMBDA q : q # p)

(***************************************************************************)
(* Compositing.                                                            *)
(***************************************************************************)
\* the pads gst_videomixer2_mix_frames composites, in the order of its calls
\* of the composite primitive (lines 507-515)
MixFrames(list, pads) == SelectSeq(list, LAMBDA q : pads[q].buffer.set)

NoOut == [pushed |-> FALSE, ts |-> NONE, duration |-> NONE, pads |-> <<>>]

\* gst_basemixer_blend_buffers: the output buffer and the pads afterwards
BlendBuffers(list, pads, output_start_time, output_end_time) ==
  [outbuf |-> [pushed |-> TRUE, ts |-> output_start_time,
               duration |-> USub(output_end_time, output_start_time),
               pads |-> MixFrames(list, pads)],
   pad |-> [p \in PadIds |->
             IF (\E i \in 1..Len(list) : list[i] = p)
                /\ pads[p].buffer.set /\ pads[p].convert
             THEN [pads[p] EXCEPT !.need_conversion_update = FALSE]
             ELSE pads[p]]]

\* GST_CLOCK_DIFF: the difference of two clock times as a signed integer of
\* the clock's width
ClockDiff(s, e) ==
  LET d == USub(e, s) IN IF d >= W64 \div 2 THEN d - W64 ELSE d

\* gst_segment_to_running_time for the output segment, whose base is 0
OutputRunningTime(seg, t) ==
  IF t = NONE \/ t < seg.start \/ (seg.stop # NONE /\ t > seg.stop) THEN NONE
  ELSE USub(t, seg.start) \div seg.rate

\* gst_basemixer_do_qos: the jitter, -1 without timestamp or observation
DoQos(m, timestamp) ==
  IF timestamp = NONE THEN -1
  ELSE IF m.earliest_time = NONE THEN -1
  ELSE ClockDiff(OutputRunningTime(m.segment, timestamp), m.earliest_time)

(***************************************************************************)
(* Locks.  A handler runs on the thread that calls it; what it does to the *)
(* mixer lock and to the setcaps lock, which state the mixer lock protects *)
(* it writes and what it pushes downstream are recorded in the order of    *)
(* the source.                                                             *)
(***************************************************************************)
Step(kind, what) == [kind |-> kind, what |-> what]
\* GST_BASE_MIXER_LOCK and GST_BASE_MIXER_UNLOCK
Lock == Step("lock", "lock")
Unlock == Step("unlock", "lock")
\* GST_BASE_MIXER_SETCAPS_LOCK and GST_BASE_MIXER_SETCAPS_UNLOCK
SetcapsLock == Step("lock", "setcaps_lock")
SetcapsUnlock == Step("unlock", "setcaps_lock")
Write(what) == Step("write", what)
Push(what) == Step("push", what)

\* the cadence is anchored again (lines 179-182 and 1488-1491)
ReanchorTrace(m, changed) ==
  IF changed /\ m.segment.position # NONE
  THEN <<Write("ts_offset"), Write("nframes")>> ELSE <<>>

\* gst_basemixer_src_setcaps (lines 1484-1497)
SrcSetcapsTrace(m, info) ==
  <<Lock>>
  \o ReanchorTrace(m, m.info.fps_n # info.fps_n \/ m.info.fps_d # info.fps_d)
  \o <<Write("info"), Unlock>>

\* gst_basemixer_update_src_caps once the loop gave b and the framerate fps
\* (lines 129-244)
SrcCapsTraceFor(list, pads, m, formats, b, fps) ==
  LET mod == ModifySrcPadInfo(list, pads, SrcInfo(m, b, fps))
  IN <<SetcapsLock, Lock>>
     \o (IF b.best_width > 0 /\ b.best_height > 0
         THEN ReanchorTrace(m, FramerateChanged(m, fps.n, fps.d))
              \o <<Unlock>>
              \o (IF mod.ok /\ mod.info.format \in formats
                  THEN SrcSetcapsTrace(WithFunctions(Anchored(m, fps), mod),
                                       mod.info)
                  ELSE <<>>)
         ELSE <<Unlock>>)
     \o <<SetcapsUnlock>>

\* gst_basemixer_update_src_caps
UpdateSrcCapsTrace(list, pads, m, formats) ==
  LET b == BestSizeFrom(1, list, pads,
             [best_width |-> -1, best_height |-> -1,
              best_fps_n |-> -1, best_fps_d |-> -1])
  IN SrcCapsTraceFor(list, pads, m, formats, b, BestFps(b))

\* gst_basemixer_update_converters, which its callers run under the lock
\* (lines 358, 377-391)
ConvertersTrace(c) ==
  IF c.ok THEN <<Write("info"), Write("pad.convert")>> ELSE <<>>

\* a caps handler that updates the output caps before it unlocks
PadSinkSetcapsTraceLocked(list, pads, m, formats) ==
  LET c == UpdateConverters(list, pads, m, formats)
  IN <<Lock, Write("pad.info")>> \o ConvertersTrace(c)
     \o (IF c.ok THEN UpdateSrcCapsTrace(list, c.pad, c.mix, formats)
         ELSE <<>>)
     \o <<Unlock>>

\* gst_basemixer_pad_sink_setcaps (lines 428-450), with the pad's new info
\* in pads
PadSinkSetcapsTrace(list, pads, m, formats) ==
  LET c == UpdateConverters(list, pads, m, formats)
  IN <<Lock, Write("pad.info")>> \o ConvertersTrace(c) \o <<Unlock>>
     \o (IF c.ok THEN UpdateSrcCapsTrace(list, c.pad, c.mix, formats)
         ELSE <<>>)

\* gst_basemixer_release_pad (lines 1755-1782), with the pad already removed
\* from list
ReleasedTrace(list, pads, m, formats) ==
  LET c == UpdateConverters(list, pads, m, formats)
  IN <<Lock, Write("sinkpads")>> \o ConvertersTrace(c) \o <<Unlock>>
     \o (IF c.mix.info.format # UNKNOWN
         THEN UpdateSrcCapsTrace(list, c.pad, c.mix, formats) ELSE <<>>)

\* gst_basemixer_request_new_pad (lines 1730-1738)
RequestTrace ==
  <<Write("pad.start_time"), Write("pad.end_time"), Lock, Write("sinkpads"),
    Unlock>>

\* gst_basemixer_pad_set_property (lines 633-638)
ZorderTrace == <<Lock, Write("sinkpads"), Unlock>>

\* GST_EVENT_FLUSH_STOP in gst_basemixer_sink_event (lines 1603-1614)
FlushStopTrace ==
  <<Lock, Write("pad.buffer"), Unlock, Write("pad.start_time"),
    Write("pad.end_time"), Write("segment.position"), Write("ts_offset"),
    Write("nframes")>>

\* the loop of GST_EVENT_SEEK over the pads from index i on (lines 1424-1444)
RECURSIVE SeekPadsTrace(_, _, _, _, _, _)
SeekPadsTrace(i, list, pads, old_rate, rate, flush) ==
  IF i > Len(list) THEN <<>>
  ELSE (IF flush
        THEN <<Write("pad.buffer"), Write("pad.start_time"),
               Write("pad.end_time")>>
        ELSE IF old_rate # rate /\ pads[list[i]].buffer.set
        THEN <<Write("pad.start_time"), Write("pad.end_time")>>
        ELSE <<>>)
       \o SeekPadsTrace(i + 1, list, pads, old_rate, rate, flush)

\* GST_EVENT_SEEK in gst_basemixer_src_event (lines 1423-1449)
SeekTrace(list, pads, old_rate, rate, flush) ==
  <<Lock>> \o SeekPadsTrace(1, list, pads, old_rate, rate, flush)
  \o <<Unlock, Write("segment.position"), Write("ts_offset"),
       Write("nframes")>>

\* gst_basemixer_reset, called by gst_basemixer_change_state (lines 721-738)
ResetTrace(list) ==
  <<Write("info"), Write("ts_offset"), Write("nframes"),
    Write("segment.position")>>
  \o (IF Len(list) > 0
      THEN <<Write("pad.buffer"), Write("pad.start_time"),
             Write("pad.end_time"), Write("pad.info")>>
      ELSE <<>>)

\* the fields of a pad that gst_basemixer_fill_queues left with another
\* value
PadWrites(P, Q) ==
  (IF P.buffer # Q.buffer THEN <<Write("pad.buffer")>> ELSE <<>>)
  \o (IF P.queued # Q.queued THEN <<Write("pad.queued")>> ELSE <<>>)
  \o (IF P.start_time # Q.start_time THEN <<Write("pad.start_time")>> ELSE <<>>)
  \o (IF P.end_time # Q.end_time THEN <<Write("pad.end_time")>> ELSE <<>>)

\* the writes of gst_basemixer_fill_queues from index i of the list on
RECURSIVE FillWrites(_, _, _, _)
FillWrites(i, list, pads, filled) ==
  IF i > Len(list) THEN <<>>
  ELSE PadWrites(pads[list[i]], filled[list[i]])
       \o FillWrites(i + 1, list, pads, filled)

\* gst_basemixer_aggregate up to the return of gst_basemixer_fill_queues
\* (lines 1074-1102): the source pad is reconfigured, the output caps are
\* sent, the lock is taken, the pending tags are pushed and the queues are
\* filled
EnteredTrace(m, f) ==
  (IF peer.reconfigure
   THEN UpdateSrcCapsTrace(sinkpads, pad, mix, peer.formats) ELSE <<>>)
  \o (IF m.send_caps THEN <<Push("caps")>> ELSE <<>>)
  \o <<Lock>>
  \o (IF m.pending_tags THEN <<Push("tags")>> ELSE <<>>)
  \o FillWrites(1, sinkpads, pad, f.pad)

\* the mixer once the output caps and the pending tags are sent (lines 1079
\* and 1096)
Sent(m) ==
  [m EXCEPT !.send_caps = FALSE, !.pending_tags = FALSE,
            \* history: the pads whose tags the pushed list holds
            !.tags = {},
            !.tag_pushes = [p \in PadIds |->
                             IF p \in m.tags THEN Min(@[p] + 1, 2) ELSE @[p]]]

(***************************************************************************)
(* The handlers.                                                           *)
(***************************************************************************)
Handler(op) ==
  [op |-> op, ret |-> "", res |-> OK, output_start_time |-> NONE,
   output_end_time |-> NONE, outbuf |-> NoOut, verdict |-> NoVerdict,
   qos_message |-> FALSE, trace |-> <<>>]

NothingPushed == <<NONE, NONE>>

\* start of the next output frame (lines 1084-1087)
OutputStartTime(m) ==
  IF m.segment.position = NONE THEN m.segment.start ELSE m.segment.position

\* a frame end that adds the rounded frame period to the frame's start
OutputEndTimeFromStart(m) ==
  LET e == UAdd(OutputStartTime(m),
                ScaleRound(1, SECOND * m.info.fps_d, m.info.fps_n))
  IN IF m.segment.stop # NONE THEN Min(e, m.segment.stop) ELSE e

\* end of the next output frame (lines 1089-1100)
OutputEndTime(m) ==
  LET e == UAdd(UAdd(m.ts_offset,
                     ScaleRound(m.nframes + 1, SECOND * m.info.fps_d,
                                m.info.fps_n)),
                m.segment.start)
  IN IF m.segment.stop # NONE THEN Min(e, m.segment.stop) ELSE e

\* what a tick records: the interval, the Queue Filler's result and branches
Ticked(f, output_start_time, output_end_time) ==
  [Handler("aggregate") EXCEPT
     !.res = f.res, !.verdict = f.verdict,
     !.output_start_time = output_start_time,
     !.output_end_time = output_end_time]

\* a mixer that counts every frame as processed, skipped or not
AdvancedAsProcessed(m, output_end_time, late) ==
  [m EXCEPT !.qos_processed = @ + 1,
            !.segment.position = output_end_time,
            !.nframes = @ + 1]

\* the mixer once a frame was blended or skipped (lines 1125, 1140, 1146-1147)
Advanced(m, output_end_time, late) ==
  [m EXCEPT !.qos_processed = IF late THEN @ ELSE @ + 1,
            !.qos_dropped = IF late THEN @ + 1 ELSE @,
            !.segment.position = output_end_time,
            !.nframes = @ + 1]

\* gst_object_sync_values in gst_basemixer_blend_buffers (lines 944-961)
\* sets the bound properties of a pad that has a buffer: with a binding on
\* zorder it calls gst_basemixer_pad_set_property, which takes the mixer
\* lock (line 633), a GMutex the tick already holds
SyncBlocks(list, pads) ==
  \E i \in 1..Len(list) :
    /\ pads[list[i]].buffer.set
    /\ pads[list[i]].buffer.ts # NONE
    /\ pads[list[i]].zorder_bound

\* the end of gst_basemixer_aggregate once the Queue Filler gave f, the QoS
\* check jitter and the blending b (lines 1104-1163)
Finish(m, h, f, jitter, b, output_start_time, output_end_time) ==
  IF f.res = NEED_MORE_DATA THEN
    /\ pad' = f.pad
    /\ mix' = m
    /\ last' = [h EXCEPT !.ret = "OK", !.trace = @ \o <<Unlock>>]
    /\ UNCHANGED pushed
  ELSE IF f.res = EOS THEN
    /\ pad' = f.pad
    /\ mix' = m
    /\ last' = [h EXCEPT !.ret = "EOS", !.trace = @ \o <<Unlock, Push("eos")>>]
    /\ UNCHANGED pushed
  ELSE IF f.res = ERROR THEN
    /\ pad' = f.pad
    /\ mix' = m
    /\ last' = [h EXCEPT !.ret = "ERROR", !.trace = @ \o <<Unlock>>]
    /\ UNCHANGED pushed
  ELSE IF jitter <= 0 /\ SyncBlocks(sinkpads, f.pad) THEN
    \* the thread waits for the lock it holds and never returns
    /\ pad' = f.pad
    /\ mix' = m
    /\ last' = [h EXCEPT !.ret = "BLOCKED", !.trace = @ \o <<Lock>>]
    /\ UNCHANGED pushed
  ELSE IF jitter <= 0 THEN
    /\ pad' = b.pad
    /\ mix' = Advanced(m, output_end_time, FALSE)
    /\ last' = [h EXCEPT !.ret = "OK", !.outbuf = b.outbuf,
                         !.trace = @ \o <<Write("segment.position"),
                                          Write("nframes"), Unlock,
                                          Push("buffer")>>]
    /\ pushed' = <<pushed[2], output_start_time>>
  ELSE
    /\ pad' = f.pad
    /\ mix' = Advanced(m, output_end_time, TRUE)
    /\ last' = [h EXCEPT !.ret = "OK", !.qos_message = TRUE,
                         !.trace = @ \o <<Write("segment.position"),
                                          Write("nframes"), Unlock>>]
    /\ UNCHANGED pushed

\* gst_basemixer_aggregate once the Queue Filler gave f (lines 1120-1130)
Blend(m, f, output_start_time, output_end_time) ==
  Finish(Sent(m),
         [Ticked(f, output_start_time, output_end_time) EXCEPT
            !.trace = EnteredTrace(m, f)],
         f,
         DoQos(m, output_start_time),
         BlendBuffers(sinkpads, f.pad, output_start_time, output_end_time),
         output_start_time, output_end_time)

\* gst_basemixer_aggregate for the output interval (line 1102); the model
\* explores the frames that end by MaxT
Fill(m, output_start_time, output_end_time) ==
  /\ m.info.fps_n # 0 => output_end_time <= MaxT
  /\ Blend(m, FillQueues(pad, sinkpads, output_start_time, output_end_time,
                         m.segment.rate),
           output_start_time, output_end_time)

\* a tick that counts the frame before the queues are filled
TickCounted(m) ==
  Fill([m EXCEPT !.nframes = @ + 1], OutputStartTime(m), OutputEndTime(m))

\* gst_basemixer_aggregate from the output caps on (lines 1077-1100)
Tick(m) == Fill(m, OutputStartTime(m), OutputEndTime(m))

\* gst_basemixer_aggregate
Aggregate ==
  /\ mix.started
  /\ IF mix.info.format = UNKNOWN THEN
       /\ last' = [Handler("aggregate") EXCEPT !.ret = "NOT_NEGOTIATED"]
       /\ UNCHANGED <<sinkpads, numpads, pad, mix, peer, pushed>>
     ELSE
       /\ IF peer.reconfigure
          THEN Tick(UpdateSrcCaps(sinkpads, pad, mix, peer.formats).mix)
          ELSE Tick(mix)
       /\ peer' = [peer EXCEPT !.reconfigure = FALSE]
       /\ UNCHANGED <<sinkpads, numpads>>

\* gst_basemixer_request_new_pad; the new pad is the smallest free one
RequestPad(limit) ==
  /\ Len(sinkpads) < limit
  /\ LET p == CHOOSE q \in PadIds : ~InList(q) /\ \A o \in PadIds : o < q => InList(o)
         pads == [pad EXCEPT ![p] = PadInit(numpads)]
     IN /\ pad' = pads
        /\ sinkpads' = InsertSorted(sinkpads, p, pads)
        /\ numpads' = numpads + 1
  /\ last' = [Handler("request_new_pad") EXCEPT !.trace = RequestTrace]
  /\ UNCHANGED <<mix, peer, pushed>>

\* gst_basemixer_release_pad
ReleasePad(p) ==
  /\ InList(p)
  /\ LET r == Released(RemovePad(sinkpads, p),
                       [pad EXCEPT ![p] = PadInit(DEFAULT_PAD_ZORDER)],
                       mix, peer.formats)
     IN /\ pad' = r.pad
        /\ mix' = r.mix
  /\ sinkpads' = RemovePad(sinkpads, p)
  /\ numpads' = numpads - 1
  /\ last' = [Handler("release_pad") EXCEPT
                !.ret = IF Released(RemovePad(sinkpads, p),
                             [pad EXCEPT ![p] = PadInit(DEFAULT_PAD_ZORDER)],
                             mix, peer.formats).updated
                        THEN "UPDATED" ELSE "",
                !.trace = ReleasedTrace(RemovePad(sinkpads, p),
                            [pad EXCEPT ![p] = PadInit(DEFAULT_PAD_ZORDER)],
                            mix, peer.formats)]
  /\ UNCHANGED <<peer, pushed>>

\* gst_basemixer_pad_set_property, PROP_PAD_ZORDER
SetZorder(p, z) ==
  /\ InList(p)
  /\ pad[p].zorder # z
  /\ LET pads == [pad EXCEPT ![p].zorder = z]
     IN /\ pad' = pads
        /\ sinkpads' = SortList(sinkpads, pads)
  /\ last' = [Handler("set_zorder") EXCEPT !.trace = ZorderTrace]
  /\ UNCHANGED <<numpads, mix, peer, pushed>>

\* the host attaches a control binding to the zorder property of a pad,
\* which is installed with GST_PARAM_CONTROLLABLE (lines 656-659)
BindZorder(p) ==
  /\ InList(p)
  /\ ~pad[p].zorder_bound
  /\ pad' = [pad EXCEPT ![p].zorder_bound = TRUE]
  /\ last' = Handler("bind_zorder")
  /\ UNCHANGED <<sinkpads, numpads, mix, peer, pushed>>

\* gst_videomixer2_pad_set_property, PROP_PAD_XPOS and PROP_PAD_YPOS
SetXpos(p, x) ==
  /\ InList(p)
  /\ pad[p].xpos # x
  /\ pad' = [pad EXCEPT ![p].xpos = x]
  /\ last' = Handler("set_xpos")
  /\ UNCHANGED <<sinkpads, numpads, mix, peer, pushed>>

SetYpos(p, y) ==
  /\ InList(p)
  /\ pad[p].ypos # y
  /\ pad' = [pad EXCEPT ![p].ypos = y]
  /\ last' = Handler("set_ypos")
  /\ UNCHANGED <<sinkpads, numpads, mix, peer, pushed>>

\* may the pad take caps of this info (lines 429-440)
AcceptsInfo(m, info) ==
  m.info.format # UNKNOWN =>
    /\ m.info.par_n = info.par_n
    /\ m.info.par_d = info.par_d
    /\ m.info.interlace = info.interlace

\* gst_basemixer_sink_event, GST_EVENT_CAPS: gst_basemixer_pad_sink_setcaps
CapsEvent(p, info) ==
  /\ mix.started
  /\ InList(p)
  /\ ~pad[p].eos
  /\ pad[p].info # info
  /\ IF ~AcceptsInfo(mix, info) THEN
       /\ last' = [Handler("caps") EXCEPT !.ret = "FALSE",
                                          !.trace = <<Lock, Unlock>>]
       /\ UNCHANGED <<pad, mix>>
     ELSE
       LET r == PadSinkSetcaps(sinkpads, [pad EXCEPT ![p].info = info], mix,
                               peer.formats)
       IN /\ pad' = r.pad
          /\ mix' = r.mix
          /\ last' = [Handler("caps") EXCEPT
                        !.ret = IF r.ret THEN "TRUE" ELSE "FALSE",
                        !.trace = PadSinkSetcapsTrace(sinkpads,
                                    [pad EXCEPT ![p].info = info], mix,
                                    peer.formats)]
  /\ UNCHANGED <<sinkpads, numpads, peer, pushed>>

\* gst_basemixer_pad_sink_setcaps on the pad's streaming thread, up to the
\* unlock (lines 428-448) ...
CapsConverters(p, info) ==
  /\ mix.started
  /\ InList(p)
  /\ ~pad[p].eos
  /\ pad[p].info # info
  /\ pad[p].setcaps = ""
  /\ AcceptsInfo(mix, info)
  /\ LET c == UpdateConverters(sinkpads, [pad EXCEPT ![p].info = info], mix,
                               peer.formats)
     IN /\ pad' = [c.pad EXCEPT ![p].setcaps = IF c.ok THEN "unlocked" ELSE ""]
        /\ mix' = c.mix
        /\ last' = [Handler("caps_converters") EXCEPT
                      !.ret = IF c.ok THEN "TRUE" ELSE "FALSE",
                      !.trace = <<Lock, Write("pad.info")>>
                                \o ConvertersTrace(c) \o <<Unlock>>]
  /\ UNCHANGED <<sinkpads, numpads, peer, pushed>>

\* ... and from the unlock on (lines 449-450)
CapsSrcCaps(p) ==
  /\ InList(p)
  /\ pad[p].setcaps = "unlocked"
  /\ LET u == UpdateSrcCaps(sinkpads, pad, mix, peer.formats)
     IN /\ mix' = u.mix
        /\ last' = [Handler("caps") EXCEPT
                      !.ret = IF u.ok THEN "TRUE" ELSE "FALSE",
                      !.trace = UpdateSrcCapsTrace(sinkpads, pad, mix,
                                                   peer.formats)]
  /\ pad' = [pad EXCEPT ![p].setcaps = ""]
  /\ UNCHANGED <<sinkpads, numpads, peer, pushed>>

\* gst_basemixer_sink_clip: "error", "drop" or "pass"
SinkClip(P, buf, rate) ==
  LET seg == PadSegment
      dur == IF buf.duration = NONE /\ P.info.fps_n # 0
             THEN ScaleRound(SECOND, P.info.fps_d, P.info.fps_n)
             ELSE buf.duration
      end0 == UAdd(dur, buf.ts)
      end1 == IF seg.stop # NONE THEN Min(end0, seg.stop) ELSE end0
      end2 == ToRunningTime(seg, end1)
      end_time == IF rate # 1 THEN UMul(end2, rate) ELSE end2
  IN IF buf.ts = NONE THEN "error"
     ELSE IF dur = NONE THEN "pass"
     ELSE IF P.pending.set /\ end_time < P.end_time THEN "drop"
     ELSE "pass"

\* what a read of the queued buffer's timestamp can give once the buffer
\* it points to, which the pad never owned (lines 801-802), is released
StaleQueued(P) ==
  IF P.queued.set
  THEN {[Buf(t, NONE) EXCEPT !.n = P.queued.n] :
          t \in {k \in 0..MaxBufTs : k % TsStep = 0}}
  ELSE {NoBuf}

\* a buffer arrives on a pad: the aggregator clips it and makes it the pad's
\* pending buffer; arrived is the number of arrivals the pad has counted
Arrive(p, buf, arrived) ==
  /\ mix.started
  /\ InList(p)
  /\ ~pad[p].eos
  /\ Negotiated(pad[p])
  \* the pad's thread is not inside its caps handler
  /\ pad[p].setcaps = ""
  /\ LET c == SinkClip(pad[p], buf, mix.segment.rate) IN
     /\ c # "error"
     /\ \E q \in StaleQueued(pad[p]) :
          pad' = [pad EXCEPT ![p].pending = IF c = "pass" THEN buf ELSE NoBuf,
                             ![p].queued = IF pad[p].pending.set THEN q ELSE @,
                             ![p].arrived = arrived]
     /\ last' = [Handler("chain") EXCEPT !.ret = c]
  /\ UNCHANGED <<sinkpads, numpads, mix, peer, pushed>>

\* a buffer arrives on a pad that does not count its arrivals
Chain(p, buf) == Arrive(p, buf, pad[p].arrived)

\* a buffer arrives on a pad that counts its arrivals
ChainNumbered(p, buf) ==
  /\ pad[p].arrived < MaxArrivals
  /\ Arrive(p, [buf EXCEPT !.n = pad[p].arrived + 1], pad[p].arrived + 1)

ChainUnclipped(p, buf) ==
  /\ mix.started
  /\ InList(p)
  /\ ~pad[p].eos
  /\ Negotiated(pad[p])
  /\ \E q \in StaleQueued(pad[p]) :
       pad' = [pad EXCEPT ![p].pending = buf,
                          ![p].queued = IF pad[p].pending.set THEN q ELSE @]
  /\ last' = [Handler("chain") EXCEPT !.ret = "unclipped"]
  /\ UNCHANGED <<sinkpads, numpads, mix, peer, pushed>>

\* downstream is linked again, to a peer that accepts formats
Relink(formats) ==
  /\ ~mix.started
  /\ peer.formats # formats
  /\ peer' = [peer EXCEPT !.formats = formats]
  /\ last' = Handler("relink")
  /\ UNCHANGED <<sinkpads, numpads, pad, mix, pushed>>

\* downstream marks the source pad for reconfiguration
Reconfigure ==
  /\ mix.started
  /\ ~peer.reconfigure
  /\ peer' = [peer EXCEPT !.reconfigure = TRUE]
  /\ last' = Handler("reconfigure")
  /\ UNCHANGED <<sinkpads, numpads, pad, mix, pushed>>

\* the aggregator hands the pad's pending buffer on and releases it
Consume(p) ==
  /\ InList(p)
  /\ pad[p].pending.set
  /\ \E q \in StaleQueued(pad[p]) :
       pad' = [pad EXCEPT ![p].pending = NoBuf, ![p].queued = q]
  /\ last' = Handler("consume")
  /\ UNCHANGED <<sinkpads, numpads, mix, peer, pushed>>

\* end-of-stream arrives on a pad
PadEos(p) ==
  /\ mix.started
  /\ InList(p)
  /\ ~pad[p].eos
  /\ pad' = [pad EXCEPT ![p].eos = TRUE]
  /\ last' = Handler("eos")
  /\ UNCHANGED <<sinkpads, numpads, mix, peer, pushed>>

\* gst_basemixer_sink_event, GST_EVENT_TAG: the tags are kept until the
\* next tick
TagEvent(p) ==
  /\ mix.started
  /\ InList(p)
  /\ ~mix.pending_tags
  /\ mix' = [mix EXCEPT !.pending_tags = TRUE]
  /\ last' = Handler("tag")
  /\ UNCHANGED <<sinkpads, numpads, pad, peer, pushed>>

\* gst_basemixer_sink_event, GST_EVENT_TAG, on the pad's streaming thread,
\* which takes no lock: first the pad's tags are merged with the pending
\* ones into a new list (line 1622) ...
TagMerge(p) ==
  /\ mix.started
  /\ InList(p)
  /\ pad[p].merging.at = ""
  /\ pad' = [pad EXCEPT ![p].merging =
                [at |-> "merged", tags |-> mix.tags \cup {p}]]
  /\ last' = Handler("tag_merge")
  /\ UNCHANGED <<sinkpads, numpads, mix, peer, pushed>>

\* ... then the new list replaces the pending one (lines 1623-1625)
TagStore(p) ==
  /\ InList(p)
  /\ pad[p].merging.at = "merged"
  /\ mix' = [mix EXCEPT !.pending_tags = TRUE, !.tags = pad[p].merging.tags]
  /\ pad' = [pad EXCEPT ![p].merging = [at |-> "stored", tags |-> {}]]
  /\ last' = Handler("tag")
  /\ UNCHANGED <<sinkpads, numpads, peer, pushed>>

\* a flush that leaves the pad's times
FlushedKeepsTimes(P) == [P EXCEPT !.buffer = NoBuf]

\* the pad once GST_EVENT_FLUSH_STOP dropped its current buffer (lines
\* 1606-1610)
Flushed(P) ==
  [P EXCEPT !.buffer = NoBuf, !.start_time = NONE, !.end_time = NONE]

\* gst_basemixer_sink_event, GST_EVENT_FLUSH_STOP; the aggregator then
\* flushes the pad
FlushStop(p) ==
  /\ mix.started
  /\ InList(p)
  /\ \E q \in StaleQueued(pad[p]) :
       pad' = [pad EXCEPT ![p] = [Flushed(pad[p]) EXCEPT
                                   !.pending = NoBuf, !.eos = FALSE,
                                   !.queued = IF pad[p].pending.set
                                              THEN q ELSE @]]
  /\ mix' = [ResetQos(mix) EXCEPT !.newseg_pending = TRUE,
                                  !.segment.position = NONE,
                                  !.ts_offset = 0, !.nframes = 0]
  /\ last' = [Handler("flush_stop") EXCEPT !.trace = FlushStopTrace]
  /\ pushed' = NothingPushed
  /\ UNCHANGED <<sinkpads, numpads, peer>>

\* gst_basemixer_src_event, GST_EVENT_QOS
Qos(proportion, diff, timestamp) ==
  /\ mix.started
  /\ mix' = UpdateQos(mix, proportion, diff, timestamp)
  /\ last' = Handler("qos")
  /\ UNCHANGED <<sinkpads, numpads, pad, peer, pushed>>

\* a time of a pad's current buffer under a new output rate (lines 1434-1443)
Rescale(t, old_rate, abs_rate) ==
  LET t1 == IF old_rate # 1 THEN t \div old_rate ELSE t
  IN IF abs_rate # 1 THEN UMul(t1, abs_rate) ELSE t1

\* gst_basemixer_src_event, GST_EVENT_SEEK: a rate that is not positive is
\* refused (lines 1411-1416); otherwise the aggregator then takes the rate
\* and the stop of the seek into the output segment
SeekSegment(rate, flush, stop) ==
  /\ mix.started
  /\ IF rate <= 0 THEN
       /\ last' = [Handler("seek") EXCEPT !.ret = "FALSE"]
       /\ UNCHANGED <<pad, mix, pushed>>
     ELSE
       /\ pad' = [p \in PadIds |->
                   IF ~InList(p) THEN pad[p]
                   ELSE IF flush
                   THEN [pad[p] EXCEPT !.buffer = NoBuf, !.start_time = NONE,
                                       !.end_time = NONE]
                   ELSE IF mix.segment.rate # rate /\ pad[p].buffer.set
                   THEN [pad[p] EXCEPT
                           !.start_time = Rescale(@, mix.segment.rate, rate),
                           !.end_time = Rescale(@, mix.segment.rate, rate)]
                   ELSE pad[p]]
       /\ mix' = [ResetQos(mix) EXCEPT !.segment.position = NONE,
                                       !.segment.rate = rate,
                                       !.segment.stop = stop,
                                       !.ts_offset = 0, !.nframes = 0]
       /\ last' = [Handler("seek") EXCEPT
                     !.trace = SeekTrace(sinkpads, pad, mix.segment.rate, rate,
                                         flush)]
       /\ pushed' = NothingPushed
  /\ UNCHANGED <<sinkpads, numpads, peer>>

\* a seek that leaves the stop of the output segment as it is
Seek(rate, flush) == SeekSegment(rate, flush, mix.segment.stop)

\* gst_basemixer_reset
Reset(m, pads, list) ==
  [mix |-> [ResetQos(m) EXCEPT !.info = InfoInit, !.ts_offset = 0,
                               !.nframes = 0,
                               !.segment = [SegmentInit EXCEPT !.position = NONE],
                               !.newseg_pending = TRUE],
   pad |-> [p \in PadIds |->
             IF \E i \in 1..Len(list) : list[i] = p
             THEN [pads[p] EXCEPT !.buffer = NoBuf, !.start_time = NONE,
                                  !.end_time = NONE, !.info = InfoInit]
             ELSE pads[p]]]

\* gst_basemixer_change_state, READY to PAUSED
Start ==
  /\ ~mix.started
  /\ mix' = [mix EXCEPT !.started = TRUE, !.send_caps = TRUE,
                        !.segment = SegmentInit, !.current_caps = NoCaps]
  /\ last' = [Handler("ready_to_paused") EXCEPT
                !.trace = <<Write("segment.position")>>]
  /\ UNCHANGED <<sinkpads, numpads, pad, peer, pushed>>

\* gst_basemixer_change_state, PAUSED to READY: the aggregator stops and
\* drops what its pads hold, then the mixer resets
Stop ==
  /\ mix.started
  /\ LET r == Reset(mix, pad, sinkpads) IN
     /\ mix' = [r.mix EXCEPT !.started = FALSE]
     /\ \E q \in [PadIds -> UNION {StaleQueued(pad[p]) : p \in PadIds}] :
          /\ \A p \in PadIds : q[p] \in StaleQueued(pad[p])
          /\ pad' = [p \in PadIds |->
                      [r.pad[p] EXCEPT !.pending = NoBuf, !.eos = FALSE,
                                       !.queued = IF pad[p].pending.set
                                                  THEN q[p] ELSE @]]
  /\ last' = [Handler("paused_to_ready") EXCEPT
                !.trace = ResetTrace(sinkpads)]
  /\ pushed' = NothingPushed
  /\ UNCHANGED <<sinkpads, numpads, peer>>

\* gst_basemixer_init, with no pad requested yet
Init ==
  /\ sinkpads = <<>>
  /\ numpads = 0
  /\ pad = [p \in PadIds |-> PadInit(DEFAULT_PAD_ZORDER)]
  /\ mix = Reset([info |-> InfoInit, ts_offset |-> 0, nframes |-> 0,
                  segment |-> SegmentInit, proportion |-> "1/2",
                  earliest_time |-> NONE, qos_processed |-> 0,
                  qos_dropped |-> 0, send_caps |-> FALSE,
                  current_caps |-> NoCaps, newseg_pending |-> FALSE,
                  pending_tags |-> FALSE,
                  \* history: the pads whose tags pending_tags holds, and
                  \* how often each pad's tags were pushed (up to 2)
                  tags |-> {}, tag_pushes |-> [p \in PadIds |-> 0],
                  functions |-> "NULL", started |-> FALSE],
                 [p \in PadIds |-> PadInit(DEFAULT_PAD_ZORDER)], <<>>).mix
  /\ peer = [formats |-> Formats, reconfigure |-> FALSE]
  /\ last = Handler("init")
  /\ pushed = NothingPushed

(***************************************************************************)
(* The mixer with the inputs of the bounded exploration.                   *)
(***************************************************************************)
BufTs == {k \in 0..MaxBufTs : k % TsStep = 0}
\* upstream buffers without duration, of no duration and of BufDuration
UpstreamBuffers == {Buf(t, d) : t \in BufTs, d \in {NONE, 0, BufDuration}}
\* upstream buffers that have a duration
TimedBuffers == {Buf(t, d) : t \in BufTs, d \in {0, BufDuration}}
\* caps of one size at two or four frames per second
UpstreamCaps == {MkInfo("I420", 2, 2, n, 1) : n \in {2, 4}}

\* One stream: every kind of upstream buffer, seeks, flushes, state changes.
Next ==
  \/ Start
  \/ Stop
  \/ RequestPad(StreamPads)
  \/ \E p \in PadIds : ReleasePad(p)
  \/ \E p \in PadIds, info \in UpstreamCaps : CapsEvent(p, info)
  \/ \E p \in PadIds, buf \in UpstreamBuffers : Chain(p, buf)
  \/ \E p \in PadIds : Consume(p)
  \/ \E p \in PadIds : PadEos(p)
  \/ \E p \in PadIds : FlushStop(p)
  \/ \E rate \in {1, 2}, flush \in BOOLEAN : Seek(rate, flush)
  \/ Aggregate

Spec == Init /\ [][Next]_vars

\* Several streams that run until end-of-stream.
NextLive ==
  \/ Start
  \/ RequestPad(LivePads)
  \/ \E p \in PadIds : ReleasePad(p)
  \/ \E p \in PadIds : CapsEvent(p, MkInfo("I420", 2, 2, 4, 1))
  \/ \E p \in PadIds, buf \in TimedBuffers : Chain(p, buf)
  \/ \E p \in PadIds : Consume(p)
  \/ \E p \in PadIds : PadEos(p)
  \/ Aggregate

SpecLive == Init /\ [][NextLive]_vars

\* The pad list: pads come and go and change their zorder while the mixer
\* composites the first frame.
NextList ==
  \/ Start
  \/ RequestPad(MaxPads)
  \/ \E p \in PadIds : ReleasePad(p)
  \/ \E p \in PadIds, z \in 0..MaxZorder : SetZorder(p, z)
  \/ \E p \in PadIds : CapsEvent(p, MkInfo("I420", 2, 2, 2, 1))
  \/ \E p \in PadIds : Chain(p, Buf(0, BufDuration))
  \/ Aggregate

SpecList == Init /\ [][NextList]_vars

\* QoS observations of downstream: the time of the frame they are about and
\* how late (positive) or early it was
QosTimes == {NONE, 0, QosStep}
QosDiffs == {-QosStep, 0, QosStep}

\* One stream whose downstream reports how late the frames arrive.
NextQos ==
  \/ Start
  \/ RequestPad(StreamPads)
  \/ \E p \in PadIds : CapsEvent(p, MkInfo("I420", 2, 2, 4, 1))
  \/ \E p \in PadIds, buf \in TimedBuffers : Chain(p, buf)
  \/ \E p \in PadIds : Consume(p)
  \/ \E p \in PadIds : PadEos(p)
  \/ \E p \in PadIds : TagEvent(p)
  \/ Reconfigure
  \/ \E diff \in QosDiffs, timestamp \in QosTimes : Qos("1", diff, timestamp)
  \/ Aggregate

SpecQos == Init /\ [][NextQos]_vars

\* the caps of the streams that are negotiated
NegCaps ==
  {MkInfo("AYUV", 320, 240, 5, 1), MkInfo("AYUV", 100, 100, 10, 1),
   MkInfo("I420", 640, 480, 0, 1)}
\* the caps of the streams whose pads are moved
PosCaps == {MkInfo("I420", 320, 240, 10, 1), MkInfo("I420", 640, 480, 10, 1)}
\* the formats of the downstream peers
PeerFormats == {Formats, {"I420"}}
\* the positions of a pad
PadPositions == {-PosStep, 0, PosStep}

\* Negotiation: streams of several formats, sizes and rates come and go,
\* downstream accepts every format or only one.
NextNeg ==
  \/ Start
  \/ Stop
  \/ RequestPad(NegPads)
  \/ \E p \in PadIds : ReleasePad(p)
  \/ \E p \in PadIds, info \in NegCaps : CapsEvent(p, info)
  \/ \E formats \in PeerFormats : Relink(formats)
  \/ Reconfigure
  \/ Aggregate

SpecNeg == Init /\ [][NextNeg]_vars

\* Positions: the pads of streams of two sizes are moved.
NextPos ==
  \/ Start
  \/ RequestPad(NegPads)
  \/ \E p \in PadIds : ReleasePad(p)
  \/ \E p \in PadIds, info \in PosCaps : CapsEvent(p, info)
  \/ \E p \in PadIds, x \in PadPositions : SetXpos(p, x)
  \/ \E p \in PadIds, y \in PadPositions : SetYpos(p, y)

SpecPos == Init /\ [][NextPos]_vars

\* Several streams, one of which may hand the mixer a buffer without
\* timestamp, while downstream reports the first frame as late.
NextUntimed ==
  \/ Start
  \/ RequestPad(LivePads)
  \/ \E p \in PadIds : CapsEvent(p, MkInfo("I420", 2, 2, 4, 1))
  \/ \E p \in PadIds, t \in BufTs : Chain(p, Buf(t, BufDuration))
  \/ \E p \in PadIds : ChainUnclipped(p, Buf(NONE, BufDuration))
  \/ \E p \in PadIds : Consume(p)
  \/ Qos("1", QosStep, 0)
  \/ Aggregate

SpecUntimed == Init /\ [][NextUntimed]_vars

\* Several streams that are flushed and sought, at a rate of 0, 1 or 2,
\* while downstream reports the first frame as late.
NextSeek ==
  \/ Start
  \/ RequestPad(LivePads)
  \/ \E p \in PadIds : CapsEvent(p, MkInfo("I420", 2, 2, 4, 1))
  \/ \E p \in PadIds, t \in BufTs : Chain(p, Buf(t, BufDuration))
  \/ \E p \in PadIds : Consume(p)
  \/ \E p \in PadIds : FlushStop(p)
  \/ \E rate \in 0..2, flush \in BOOLEAN : Seek(rate, flush)
  \/ Qos("1", QosStep, 0)
  \/ Aggregate

SpecSeek == Init /\ [][NextSeek]_vars

\* Two streams with no flush, seek or state change: the buffers of the first
\* one are counted as they arrive, the second one sends a buffer without
\* duration now and then.
NextOrder ==
  \/ Start
  \/ RequestPad(LivePads)
  \/ \E p \in PadIds : CapsEvent(p, MkInfo("I420", 2, 2, 4, 1))
  \/ \E buf \in UpstreamBuffers : ChainNumbered(1, buf)
  \/ \E p \in PadIds \ {1} : Chain(p, Buf(0, NONE))
  \/ \E p \in PadIds : Consume(p)
  \/ Aggregate

SpecOrder == Init /\ [][NextOrder]_vars

\* the caps of streams of two pixel aspect ratios and two colorimetries, one
\* with an alpha channel
ParCaps ==
  {MkInfo("AYUV", 2, 2, 4, 1), MkInfo("I420", 2, 2, 4, 1),
   [MkInfo("I420", 2, 2, 4, 1) EXCEPT !.par_n = 2],
   [MkInfo("I420", 2, 2, 4, 1) EXCEPT !.colorimetry = "bt709"]}

\* Aspect ratios: streams of two pixel aspect ratios come and go, downstream
\* accepts every format or only one.
NextPar ==
  \/ Start
  \/ RequestPad(NegPads)
  \/ \E p \in PadIds : ReleasePad(p)
  \/ \E p \in PadIds, info \in ParCaps : CapsEvent(p, info)
  \/ \E formats \in PeerFormats : Relink(formats)

SpecPar == Init /\ [][NextPar]_vars

\* The election: four streams get caps of two formats without and two with
\* an alpha channel in every order, downstream accepts every format or only
\* one.
NextElect ==
  \/ Start
  \/ RequestPad(ElectPads)
  \/ \E p \in PadIds, f \in {"I420", "NV12", "AYUV", "ARGB"} :
       CapsEvent(p, MkInfo(f, 2, 2, 4, 1))
  \/ \E formats \in PeerFormats : Relink(formats)

SpecElect == Init /\ [][NextElect]_vars

\* The tags: every stream sends one tag list while the mixer ticks.
NextTags ==
  \/ Start
  \/ RequestPad(LivePads)
  \/ \E p \in PadIds : CapsEvent(p, MkInfo("I420", 2, 2, 4, 1))
  \/ \E p \in PadIds : Chain(p, Buf(0, BufDuration))
  \/ \E p \in PadIds : TagMerge(p)
  \/ \E p \in PadIds : TagStore(p)
  \/ Aggregate

SpecTags == Init /\ [][NextTags]_vars

\* Caps events and ticks on their threads: a stream with and one without
\* alpha get caps while the mixer ticks.
NextCaps ==
  \/ Start
  \/ RequestPad(NegPads)
  \/ \E p \in PadIds, f \in {"I420", "AYUV"} :
       CapsConverters(p, MkInfo(f, 2, 2, 4, 1))
  \/ \E p \in PadIds : CapsSrcCaps(p)
  \/ \E p \in PadIds : Chain(p, Buf(0, BufDuration))
  \/ Aggregate

SpecCaps == Init /\ [][NextCaps]_vars

\* every listed pad is at end-of-stream and the aggregator holds no buffer
\* of it
AllEos ==
  /\ Len(sinkpads) > 0
  /\ \A i \in 1..Len(sinkpads) :
       pad[sinkpads[i]].eos /\ ~pad[sinkpads[i]].pending.set

\* End of stream: a stream gets a buffer and ends, before that the output
\* segment may get a stop; the aggregator ticks MaxFrames times after a seek.
NextEos ==
  \/ Start
  \/ RequestPad(StreamPads)
  \/ \E p \in PadIds, info \in UpstreamCaps : CapsEvent(p, info)
  \/ \E p \in PadIds : Chain(p, Buf(0, BufDuration))
  \/ \E p \in PadIds : Consume(p)
  \/ \E p \in PadIds : PadEos(p)
  \/ \E stop \in {NONE, SeekStop}, flush \in BOOLEAN :
       ~AllEos /\ SeekSegment(1, flush, stop)
  \/ mix.nframes < MaxFrames /\ Aggregate

SpecEos == Init /\ [][NextEos]_vars

\* the tick waits for the mixer lock; every handler that takes it waits too
Blocked == last.ret = "BLOCKED"

\* Controlled properties: the host binds the zorder of some pads while the
\* streams run.
NextSync ==
  \/ ~Blocked /\ Start
  \/ ~Blocked /\ RequestPad(LivePads)
  \/ ~Blocked /\ \E p \in PadIds : CapsEvent(p, MkInfo("I420", 2, 2, 4, 1))
  \/ ~Blocked /\ \E p \in PadIds : Chain(p, Buf(0, BufDuration))
  \/ ~Blocked /\ \E p \in PadIds : BindZorder(p)
  \/ ~Blocked /\ \E p \in PadIds, z \in 0..MaxZorder : SetZorder(p, z)
  \/ ~Blocked /\ Aggregate

SpecSync == Init /\ [][NextSync]_vars

(***************************************************************************)
(* Properties.                                                             *)
(***************************************************************************)
\* the last handler was an aggregate tick that ran the Queue Filler
Filled == last.op = "aggregate" /\ last.ret # "NOT_NEGOTIATED"

\* the last handler was an aggregate tick that pushed an output buffer
Emitted == last.op = "aggregate" /\ last.outbuf.pushed

\* C1: with no flush, seek or reset in between, every output buffer pushed
\* downstream has a timestamp greater than that of the buffer pushed before
\* it.
C1_TimestampsIncrease ==
  (pushed[1] # NONE /\ pushed[2] # NONE) => pushed[1] < pushed[2]

\* C2: the output segment.position never decreases from one state to the
\* next unless the step is a flush-stop, a seek or a reset; caps events and
\* pad releases are among the steps that must not decrease it.
C2_PositionNeverDecreases ==
  [][(/\ last'.op \notin {"flush_stop", "seek", "paused_to_ready"}
      /\ mix.segment.position # NONE
      /\ mix'.segment.position # NONE)
     => mix'.segment.position >= mix.segment.position]_vars

\* the frame period SECOND * fps_d / fps_n of the output framerate, rounded
\* to the nearest clock unit
RoundedPeriod == ScaleRound(1, SECOND * mix.info.fps_d, mix.info.fps_n)

\* the end the cadence formula gives to frame number n of the current
\* cadence: segment.start + ts_offset + round(n * SECOND * fps_d / fps_n),
\* clamped to segment.stop
CadenceTime(n) ==
  LET t == UAdd(UAdd(mix.ts_offset,
                     ScaleRound(n, SECOND * mix.info.fps_d, mix.info.fps_n)),
                mix.segment.start)
  IN IF mix.segment.stop # NONE THEN Min(t, mix.segment.stop) ELSE t

\* C3 as the specification states it: every emitted output buffer whose end
\* was not clamped to segment.stop has the duration SECOND * fps_d / fps_n
\* rounded to the nearest clock unit, whatever its frame index.
C3_DurationIsRoundedPeriod ==
  (Emitted /\ last.output_end_time # mix.segment.stop)
    => last.outbuf.duration = RoundedPeriod

\* C3 amended: every emitted output buffer starts at out_start, ends at the
\* end the cadence formula gives to its frame index, and its duration is the
\* difference of the two (modulo the clock width); a frame that also starts
\* on the cadence and is not clamped has a duration within one clock unit
\* of the rounded frame period.
C3_DurationFollowsCadence ==
  Emitted =>
    /\ last.output_end_time = CadenceTime(mix.nframes)
    /\ mix.segment.position = last.output_end_time
    /\ last.outbuf.ts = last.output_start_time
    /\ last.outbuf.duration =
         USub(last.output_end_time, last.output_start_time)
    /\ (/\ last.output_start_time = CadenceTime(mix.nframes - 1)
        /\ last.output_end_time # mix.segment.stop
        /\ mix.info.fps_n # 0)
       => /\ last.outbuf.duration + 1 >= RoundedPeriod
          /\ last.outbuf.duration <= RoundedPeriod + 1

\* an emitted frame on the cadence whose duration is not the rounded period
C3_Witness ==
  /\ Emitted
  /\ mix.nframes > 1
  /\ last.output_start_time = CadenceTime(mix.nframes - 1)
  /\ last.outbuf.duration # RoundedPeriod

\* C4: after every pad request, pad release and write of a zorder property
\* the pad list is sorted by ascending zorder.
C4_ListSortedByZorder ==
  \A i, j \in 1..Len(sinkpads) :
     i < j => pad[sinkpads[i]].zorder <= pad[sinkpads[j]].zorder

\* a write of a zorder property that moved a pad in front of an older one
C4_Witness ==
  /\ last.op = "set_zorder"
  /\ \E i, j \in 1..Len(sinkpads) :
       /\ i < j
       /\ sinkpads[i] > sinkpads[j]
       /\ pad[sinkpads[i]].zorder < pad[sinkpads[j]].zorder

\* C5: in every output frame, of two contributing pads the one with the
\* smaller zorder is composited first.
C5_CompositedInZorder ==
  Emitted =>
    \A i, j \in 1..Len(last.outbuf.pads) :
       pad[last.outbuf.pads[i]].zorder < pad[last.outbuf.pads[j]].zorder
         => i < j

\* a frame of two pads in which the pad requested last is composited first
C5_Witness ==
  /\ Emitted
  /\ Len(last.outbuf.pads) >= 2
  /\ last.outbuf.pads[1] > last.outbuf.pads[2]
  /\ pad[last.outbuf.pads[1]].zorder < pad[last.outbuf.pads[2]].zorder

\* C6: a pad whose current buffer is set has a defined start_time and
\* end_time with end_time > start_time.
C6_BufferHasInterval ==
  \A p \in PadIds :
     pad[p].buffer.set =>
       /\ pad[p].start_time # NONE
       /\ pad[p].end_time # NONE
       /\ pad[p].end_time > pad[p].start_time

\* C7: no output frame composites a pad buffer whose interval ends strictly
\* before the frame's out_start.
C7_NoEndedBufferComposited ==
  Emitted =>
    \A i \in 1..Len(last.outbuf.pads) :
       pad[last.outbuf.pads[i]].end_time >= last.output_start_time

\* does the pad's current buffer cover part of the last output interval
Covers(P) ==
  /\ P.buffer.set
  /\ P.start_time < last.output_end_time
  /\ P.end_time > last.output_start_time

\* C8 as the specification states it: when the Queue Filler returns OK, some
\* pad has a current buffer that covers part of the output interval.
C8_OkHasCoveringBuffer ==
  (Filled /\ last.res = OK) => \E p \in PadIds : InList(p) /\ Covers(pad[p])

\* C8 amended: when the Queue Filler returns OK, some pad has a current
\* buffer that starts before out_end and ends at or after out_start, or has
\* an upstream buffer that starts at or after out_end and is kept for
\* later, or is at end-of-stream with a current buffer that ends after
\* out_start.
C8_OkHasUsableBuffer ==
  (Filled /\ last.res = OK) =>
    \E p \in PadIds :
       /\ InList(p)
       /\ \/ /\ pad[p].buffer.set
             /\ pad[p].start_time < last.output_end_time
             /\ pad[p].end_time >= last.output_start_time
          \/ /\ pad[p].pending.set
             /\ Candidate(pad[p], mix.segment.rate).start
                  >= last.output_end_time
          \/ /\ pad[p].eos
             /\ ~pad[p].pending.set
             /\ pad[p].end_time # NONE
             /\ pad[p].end_time > last.output_start_time

\* the Queue Filler returned OK while no pad has a current buffer
C8_Witness ==
  /\ Filled
  /\ last.res = OK
  /\ Len(sinkpads) > 0
  /\ \A p \in PadIds : ~pad[p].buffer.set

\* C9: the Queue Filler returns EOS only when every pad is at end-of-stream,
\* has no upstream buffer pending and no current buffer that reaches past
\* out_start.
C9_EosOnlyWhenDrained ==
  (Filled /\ last.res = EOS) =>
    \A p \in PadIds :
       InList(p) =>
         /\ pad[p].eos
         /\ ~pad[p].pending.set
         /\ ~(pad[p].buffer.set /\ pad[p].end_time > last.output_start_time)

FilledOkStep ==
  last'.op = "aggregate" /\ last'.ret # "NOT_NEGOTIATED" /\ last'.res = OK

\* the observation says that the frame starting at t is late: there is an
\* earliest time and it lies after the running time of t (the jitter, their
\* signed difference, is positive)
Late(m, t) ==
  /\ m.earliest_time # NONE
  /\ ClockDiff(OutputRunningTime(m.segment, t), m.earliest_time) > 0

\* C11: on a tick where the Queue Filler returns OK and the frame is late
\* (jitter > 0), nothing is blended or pushed, qos_dropped grows by one,
\* qos_processed is unchanged and a QoS message is posted; otherwise (jitter
\* <= 0 or no observation) the frame is blended and pushed and qos_processed
\* grows by one; in both cases segment.position becomes out_end and nframes
\* grows by one.
C11_LateFrameIsDropped ==
  [][FilledOkStep =>
       /\ mix'.segment.position = OutputEndTime(mix)
       /\ mix'.nframes = mix.nframes + 1
       /\ IF Late(mix, OutputStartTime(mix))
          THEN /\ ~last'.outbuf.pushed
               /\ pushed' = pushed
               /\ mix'.qos_dropped = mix.qos_dropped + 1
               /\ mix'.qos_processed = mix.qos_processed
               /\ last'.qos_message
          ELSE /\ last'.outbuf.pushed
               /\ last'.outbuf.ts = OutputStartTime(mix)
               /\ pushed'[2] = OutputStartTime(mix)
               /\ mix'.qos_processed = mix.qos_processed + 1
               /\ mix'.qos_dropped = mix.qos_dropped
               /\ ~last'.qos_message]_vars

\* a late frame was skipped after a frame was blended
C11_Witness ==
  /\ last.op = "aggregate" /\ last.res = OK /\ last.qos_message
  /\ ~last.outbuf.pushed
  /\ mix.qos_dropped = 1 /\ mix.qos_processed = 1
  /\ mix.segment.position = last.output_end_time

\* the pad's next upstream buffer has no start timestamp
Untimed(P) == P.pending.set /\ P.pending.ts = NONE

\* the step is an aggregate tick that leaves the position, the frame count,
\* the cadence anchor and the QoS counters as they are and pushes nothing
NothingAdvances ==
  /\ ~last'.outbuf.pushed
  /\ pushed' = pushed
  /\ mix'.segment.position = mix.segment.position
  /\ mix'.nframes = mix.nframes
  /\ mix'.ts_offset = mix.ts_offset
  /\ mix'.qos_processed = mix.qos_processed
  /\ mix'.qos_dropped = mix.qos_dropped

C13_NeedMoreDataRetries ==
  [][(last'.op = "aggregate" /\ last'.res = NEED_MORE_DATA)
     => /\ last'.ret = "OK"
        /\ NothingAdvances
        /\ OutputStartTime(mix') = last'.output_start_time
        /\ OutputEndTime(mix') = last'.output_end_time]_vars

\* a tick asked for more data after frames were blended and dropped
C13_Witness ==
  /\ last.op = "aggregate" /\ last.res = NEED_MORE_DATA /\ last.ret = "OK"
  /\ mix.nframes > 1 /\ mix.qos_dropped > 0 /\ mix.qos_processed > 0
  /\ mix.segment.position = last.output_start_time

\* does the thread hold the lock when it comes to step i of its trace
HeldAt(trace, i, what) ==
  Cardinality({j \in 1..(i - 1) : trace[j] = Step("lock", what)})
    > Cardinality({j \in 1..(i - 1) : trace[j] = Step("unlock", what)})

\* C14: the aggregate thread never holds the mixer lock while it pushes
\* downstream: the output caps, the pending tags, the end-of-stream event and
\* the output buffer are pushed with the lock released.
C14_NoPushUnderLock ==
  last.op = "aggregate" =>
    \A i \in 1..Len(last.trace) :
      last.trace[i].kind = "push" => ~HeldAt(last.trace, i, "lock")

\* C15: the flush-stop handler, the seek handler, the caps handlers and the
\* aggregate tick write the state the mixer lock protects only while they
\* hold the mixer lock.
C15_WritesUnderLock ==
  last.op \in {"flush_stop", "seek", "caps", "aggregate"} =>
    \A i \in 1..Len(last.trace) :
      last.trace[i].kind = "write" => HeldAt(last.trace, i, "lock")

\* the pads of the list that have a size
SizedPads ==
  {q \in PadIds : InList(q) /\ pad[q].info.width # 0 /\ pad[q].info.height # 0}

\* the last handler updated the output caps from at least one pad with a
\* size: a caps event that succeeded, or the release of a pad of a
\* negotiated mixer
OutputCapsUpdated ==
  /\ SizedPads # {}
  /\ \/ last.op = "caps" /\ last.ret = "TRUE"
     \/ last.op = "release_pad" /\ last.ret = "UPDATED"

\* the framerate n/d is the largest positive framerate of the sized pads, or
\* 25/1 when none of them has a positive framerate
LargestFramerate(n, d) ==
  IF \E q \in SizedPads : pad[q].info.fps_n > 0 /\ pad[q].info.fps_d > 0
  THEN /\ \E q \in SizedPads : n * pad[q].info.fps_d = pad[q].info.fps_n * d
       /\ \A q \in SizedPads :
            pad[q].info.fps_d > 0 => pad[q].info.fps_n * d <= n * pad[q].info.fps_d
       /\ d > 0
  ELSE n = 25 /\ d = 1

RightEdge(P) == P.info.width + (IF P.xpos > 0 THEN P.xpos ELSE 0)
LowerEdge(P) == P.info.height + (IF P.ypos > 0 THEN P.ypos ELSE 0)

AlphaPads(pads) ==
  {p \in PadIds : InList(p) /\ HasAlpha(pads[p].info.format)}

\* C18: a caps event whose update of the converters finds a pad with an
\* alpha channel and elects an output format without one fails, and leaves
\* out_info and every pad's converter as they were
C18_AlphaNeedsAlphaOutput ==
  [][(/\ last'.op = "caps"
      /\ peer.formats # {}
      /\ AlphaPads(pad') # {}
      /\ ~HasAlpha(BestInfo(sinkpads, pad', peer.formats).best_info.format))
     => (/\ last'.ret = "FALSE"
         /\ mix'.info = mix.info
         /\ \A p \in PadIds : pad'[p].convert = pad[p].convert)]_vars

\* a stream with an alpha channel was refused because downstream takes I420
\* only, on a mixer that has an output format and a pad without alpha
C18_Witness ==
  /\ last.op = "caps"
  /\ last.ret = "FALSE"
  /\ peer.formats = {"I420"}
  /\ \E p \in AlphaPads(pad) : pad[p].info.format = "AYUV"
  /\ \E p \in PadIds : InList(p) /\ pad[p].info.format = "I420"
  /\ mix.info.format = "I420"

\* C19: gst_basemixer_update_converters run twice in a row gives the
\* out_info and the converters of the first run
C19_UpdateConvertersTwice ==
  LET r1 == UpdateConverters(sinkpads, pad, mix, peer.formats)
      r2 == UpdateConverters(sinkpads, r1.pad, r1.mix, peer.formats)
  IN /\ r2.ok = r1.ok
     /\ r2.mix.info = r1.mix.info
     /\ \A p \in PadIds : r2.pad[p].convert = r1.pad[p].convert

\* a caps event updated the converters of two streams, one that is
\* converted to the output format and one that is not
C19_Witness ==
  /\ last.op = "caps"
  /\ last.ret = "TRUE"
  /\ \E p \in PadIds : InList(p) /\ pad[p].info.format = "AYUV"
                                 /\ ~pad[p].convert
  /\ \E p \in PadIds : InList(p) /\ pad[p].info.format = "I420"
                                 /\ pad[p].convert
  /\ mix.info.format = "AYUV"
  /\ UpdateConverters(sinkpads, pad, mix, peer.formats).ok

\* C20: out_info's format is unknown or one of the formats set_functions
\* has pixel primitives for
C20_OutputFormatHasFunctions ==
  mix.info.format # UNKNOWN => SetFunctions(mix.info.format) = mix.info.format

\* the last pad was released: the output format is the one fixated from the
\* downstream caps
C20_Witness ==
  /\ last.op = "release_pad"
  /\ Len(sinkpads) = 0
  /\ mix.info.format \in FunctionFormats
  /\ mix.info.width = 1

\* C21: with an output rate r other than 1, an upstream buffer whose
\* interval in the pad's running time is [a, b] is promoted with the
\* interval [a/r, b/r]
C21_RateDividesInterval ==
  [][\A p \in PadIds :
       (/\ last'.op = "aggregate"
        /\ last'.verdict[p] = "take"
        /\ mix.segment.rate # 1
        /\ ~pad[p].queued.set)
       => (/\ pad'[p].start_time =
                ToRunningTime(PadSegment, pad[p].pending.ts)
                  \div mix.segment.rate
           /\ pad'[p].end_time =
                ToRunningTime(PadSegment,
                              UAdd(pad[p].pending.duration, pad[p].pending.ts))
                  \div mix.segment.rate)]_vars

\* is the observation of downstream forgotten (gst_basemixer_reset_qos)
QosIsReset(m) ==
  /\ m.proportion = "1/2"
  /\ m.earliest_time = NONE
  /\ m.qos_processed = 0
  /\ m.qos_dropped = 0

\* C22: a seek with a positive rate leaves the position undefined, ts_offset
\* and nframes at 0 and the QoS reset, and with the flush flag every pad
\* without current buffer and without times; a seek with another rate is
\* refused and changes none of these
C22_SeekResets ==
  [][\A rate \in 0..2, flush \in BOOLEAN :
       Seek(rate, flush) =>
         IF rate > 0
         THEN /\ mix'.segment.position = NONE
              /\ mix'.ts_offset = 0
              /\ mix'.nframes = 0
              /\ QosIsReset(mix')
              /\ flush => \A p \in PadIds :
                            InList(p) => /\ ~pad'[p].buffer.set
                                         /\ pad'[p].start_time = NONE
                                         /\ pad'[p].end_time = NONE
         ELSE /\ last'.ret = "FALSE"
              /\ mix' = mix
              /\ pad' = pad]_vars

\* a flushing seek at rate 2 on a mixer with two pads
C22_Witness ==
  /\ last.op = "seek"
  /\ last.ret # "FALSE"
  /\ Len(sinkpads) = 2
  /\ \E i \in 1..Len(last.trace) : last.trace[i] = Write("pad.buffer")
  /\ mix.segment.rate = 2
  /\ mix.segment.position = NONE

\* C23: once the transition to READY is done the mixer is reset: out_info is
\* unknown, ts_offset and nframes are 0, current_caps is cleared, the output
\* segment is initialised with an undefined position, and no pad has a
\* current buffer or a queued buffer
C23_ReadyIsFullReset ==
  last.op = "paused_to_ready" =>
    /\ mix.info.format = UNKNOWN
    /\ mix.ts_offset = 0
    /\ mix.nframes = 0
    /\ mix.current_caps = NoCaps
    /\ mix.segment = [SegmentInit EXCEPT !.position = NONE]
    /\ \A p \in PadIds : InList(p) => /\ ~pad[p].buffer.set
                                      /\ ~pad[p].queued.set

\* C23, the buffers alone: once the transition to READY is done no pad has a
\* current buffer or a queued buffer
C23_ReadyDropsBuffers ==
  last.op = "paused_to_ready" =>
    \A p \in PadIds : InList(p) => /\ ~pad[p].buffer.set
                                   /\ ~pad[p].queued.set

\* C24: whenever out_info is known, every pad with a known format has the
\* pixel aspect ratio and the interlace mode of out_info
C24_PadsHaveParOfOutput ==
  mix.info.format # UNKNOWN =>
    \A p \in PadIds :
      (InList(p) /\ Negotiated(pad[p])) =>
        /\ pad[p].info.par_n = mix.info.par_n
        /\ pad[p].info.par_d = mix.info.par_d
        /\ pad[p].info.interlace = mix.info.interlace

\* C30: a flush-stop on a pad leaves that pad without current buffer and
\* without times, the QoS reset, the output position undefined and
\* newseg_pending set, and leaves the current buffer and the times of every
\* other pad as they were
C30_FlushStopResetsThePad ==
  [][\A p \in PadIds :
       FlushStop(p) =>
         /\ ~pad'[p].buffer.set
         /\ pad'[p].start_time = NONE
         /\ pad'[p].end_time = NONE
         /\ QosIsReset(mix')
         /\ mix'.segment.position = NONE
         /\ mix'.newseg_pending
         /\ \A q \in PadIds \ {p} :
              /\ pad'[q].buffer = pad[q].buffer
              /\ pad'[q].start_time = pad[q].start_time
              /\ pad'[q].end_time = pad[q].end_time]_vars

\* one pad was flushed and has no buffer, the other one kept its buffer
C30_Witness ==
  /\ last.op = "flush_stop"
  /\ \E p \in PadIds : InList(p) /\ ~pad[p].buffer.set
                                 /\ pad[p].start_time = NONE
  /\ \E q \in PadIds : InList(q) /\ pad[q].buffer.set
                                 /\ pad[q].end_time # NONE
  /\ mix.segment.position = NONE

\* does the pad's upstream buffer start before its current buffer or before
\* its queued buffer
StartsEarlier(P) ==
  /\ P.pending.set
  /\ P.pending.ts # NONE
  /\ \/ P.buffer.set /\ P.pending.ts < P.buffer.ts
     \/ P.queued.set /\ P.pending.ts < P.queued.ts

\* C25: an upstream buffer that starts before the pad's current buffer or
\* before its queued buffer is dropped as from the past: the tick does not
\* promote it and leaves the pad's buffer, queued buffer, start_time and
\* end_time as they were
C25_BufferFromThePastIsDropped ==
  [][\A p \in PadIds :
       (/\ last'.op = "aggregate"
        /\ last'.ret # "NOT_NEGOTIATED"
        /\ InList(p)
        /\ StartsEarlier(pad[p]))
       => (/\ last'.verdict[p] = "past"
           /\ last'.res = NEED_MORE_DATA
           /\ pad'[p].buffer = pad[p].buffer
           /\ pad'[p].queued = pad[p].queued
           /\ pad'[p].start_time = pad[p].start_time
           /\ pad'[p].end_time = pad[p].end_time)]_vars

\* a tick dropped a buffer that starts before the queued one, on a pad that
\* has a current buffer too
C25_Witness ==
  /\ last.op = "aggregate"
  /\ \E p \in PadIds :
       /\ InList(p)
       /\ last.verdict[p] = "past"
       /\ pad[p].queued.set
       /\ pad[p].buffer.set
       /\ pad[p].pending.ts < pad[p].queued.ts
       /\ pad[p].pending.ts >= pad[p].buffer.ts

\* C26: with no flush, seek or reset in between, a pad's buffers are
\* promoted in the order of their arrival, and the pad's end_time does not
\* decrease from one promotion to the next
C26_PromotedInArrivalOrder ==
  [][\A p \in PadIds :
       (/\ last'.op = "aggregate"
        /\ last'.verdict[p] = "take"
        /\ pad[p].taken.count > 0)
       => (/\ pad'[p].buffer.n >= pad[p].taken.n
           /\ pad'[p].end_time >= pad[p].taken.end)]_vars

\* the third buffer that arrived is the pad's second promotion, after a
\* tick that gave up the first one
C26_Witness ==
  /\ last.op = "aggregate"
  /\ \E p \in PadIds :
       /\ last.verdict[p] = "take"
       /\ pad[p].taken.count = 2
       /\ pad[p].buffer.n = MaxArrivals
       /\ pad[p].end_time > pad[p].start_time

\* C27: when a caps event or the release of a pad changes the output
\* framerate, from one that is not 0 to another one that is not 0, while the
\* output position is defined, then afterwards
\* ts_offset = position - segment.start and nframes = 0
C27_NewFramerateIsAnchored ==
  [][(/\ last'.op \in {"caps", "release_pad"}
      /\ mix.info.fps_n # 0
      /\ mix'.info.fps_n # 0
      /\ <<mix'.info.fps_n, mix'.info.fps_d>> # <<mix.info.fps_n, mix.info.fps_d>>
      /\ mix.segment.position # NONE)
     => (/\ mix'.ts_offset = USub(mix'.segment.position, mix'.segment.start)
         /\ mix'.nframes = 0)]_vars

\* do the format, the colorimetry or the chroma siting of two infos differ
InfoDiffers(a, b) ==
  \/ a.format # b.format
  \/ a.colorimetry # b.colorimetry
  \/ a.chroma # b.chroma

FormatAt(i) == pad[sinkpads[i]].info.format

\* the indexes of the pads whose format downstream accepts, and those that
\* take part in the election: the ones with alpha when there is one
Candidates ==
  {i \in 1..Len(sinkpads) : FormatAt(i) # UNKNOWN /\ FormatAt(i) \in peer.formats}
Electable ==
  IF \E i \in Candidates : HasAlpha(FormatAt(i))
  THEN {i \in Candidates : HasAlpha(FormatAt(i))}
  ELSE Candidates

\* how many electable pads up to index i declare format f
CountUpTo(f, i) == Cardinality({j \in Electable : j <= i /\ FormatAt(j) = f})
CountOf(f) == CountUpTo(f, Len(sinkpads))
MostDeclared ==
  {f \in Formats : /\ CountOf(f) > 0
                   /\ \A g \in Formats : CountOf(g) <= CountOf(f)}
\* the index of the first pad of format f, and the index at which f reaches
\* its count
FirstPadOf(f) ==
  CHOOSE i \in Electable : /\ FormatAt(i) = f
                           /\ \A j \in Electable : FormatAt(j) = f => i <= j
LastPadOf(f) ==
  CHOOSE i \in Electable : /\ FormatAt(i) = f
                           /\ \A j \in Electable : FormatAt(j) = f => j <= i

\* a caps event has just updated the converters and the output caps
Elected28 == last.op = "caps" /\ last.ret = "TRUE" /\ Electable # {}

\* C28 as stated: the output format is the format most pads declare, and
\* among several such formats the one whose first pad comes first in the list
C28_MostDeclaredFirstSeen ==
  Elected28 =>
    /\ mix.info.format \in MostDeclared
    /\ \A g \in MostDeclared :
         FirstPadOf(mix.info.format) <= FirstPadOf(g)

\* C28, amended: the output format is the format most pads declare, and
\* among several such formats the one that reaches that count first in the
\* list, i.e. the one whose last pad comes first
C28_MostDeclaredFirstComplete ==
  Elected28 =>
    /\ mix.info.format \in MostDeclared
    /\ \A g \in MostDeclared :
         LastPadOf(mix.info.format) <= LastPadOf(g)

\* four pads declare I420, NV12, NV12, I420 in this order and the output is
\* NV12
C28_Witness ==
  /\ Elected28
  /\ Len(sinkpads) = 4
  /\ FormatAt(1) = "I420" /\ FormatAt(2) = "NV12"
  /\ FormatAt(3) = "NV12" /\ FormatAt(4) = "I420"
  /\ mix.info.format = "NV12"

\* the end time the clip step gives a buffer that has a timestamp and a
\* duration: clipped to the pad's segment and scaled to the output rate
ClippedEnd(P, buf, rate) ==
  ToOutputTime(ClipEnd(UAdd(IF buf.duration = NONE
                            THEN ScaleRound(SECOND, P.info.fps_d, P.info.fps_n)
                            ELSE buf.duration, buf.ts), PadSegment),
               PadSegment, rate)

\* C31: the clip step drops a buffer whose clipped, scaled end time lies at
\* or before the pad's end_time, and passes it when the pad has no end_time
C31_ClipDropsAtOrBeforeEnd ==
  [][\A p \in PadIds, buf \in UpstreamBuffers :
       (Chain(p, buf) /\ (buf.duration # NONE \/ pad[p].info.fps_n # 0)) =>
         /\ pad[p].end_time = NONE => last'.ret = "pass"
         /\ (/\ pad[p].end_time # NONE
             /\ ClippedEnd(pad[p], buf, mix.segment.rate) <= pad[p].end_time)
            => last'.ret = "drop"]_vars

\* C31 where the two end times are equal and the pad holds a buffer that
\* was not consumed yet
C31_ClipDropsAtEnd ==
  [][\A p \in PadIds, buf \in UpstreamBuffers :
       (/\ Chain(p, buf)
        /\ (buf.duration # NONE \/ pad[p].info.fps_n # 0)
        /\ pad[p].pending.set
        /\ pad[p].end_time # NONE
        /\ ClippedEnd(pad[p], buf, mix.segment.rate) = pad[p].end_time)
       => last'.ret = "drop"]_vars

\* the place of a listed pad in a list
PlaceIn(list, p) == CHOOSE i \in 1..Len(list) : list[i] = p

\* C32: a requested pad gets the number of pads as zorder and comes after
\* every listed pad that has the same zorder
C32_NewPadAfterEqualZorder ==
  [][RequestPad(MaxPads) =>
       \A new \in PadIds :
         (~InList(new) /\ \E i \in 1..Len(sinkpads') : sinkpads'[i] = new) =>
           /\ pad'[new].zorder = Len(sinkpads)
           /\ \A q \in PadIds :
                (InList(q) /\ pad[q].zorder = pad'[new].zorder) =>
                  PlaceIn(sinkpads', q) < PlaceIn(sinkpads', new)]_vars

\* C33: every tag list a pad's handler stored is pending or was pushed, and
\* no pad's tags are pushed twice
C33_TagsPushedOnce ==
  \A p \in PadIds :
    /\ mix.tag_pushes[p] <= 1
    /\ pad[p].merging.at = "stored" =>
         (p \in mix.tags /\ mix.pending_tags) \/ mix.tag_pushes[p] = 1

\* C34: the caps handed downstream are never null, and every output buffer
\* has the format and size of the caps handed downstream last. The caps
\* handed last are current_caps once a tick has cleared send_caps: the flag
\* is set when the mixer starts and wherever current_caps is written.
C34_BufferHasHandedCaps ==
  (last.op = "aggregate" /\ last.ret # "NOT_NEGOTIATED") =>
    /\ mix.current_caps # NoCaps
    /\ last.outbuf.pushed =>
         /\ mix.current_caps[1].format = mix.info.format
         /\ mix.current_caps[1].width = mix.info.width
         /\ mix.current_caps[1].height = mix.info.height

\* C35: no handler takes the setcaps lock while it holds the mixer lock, so
\* the two locks are always taken in the order setcaps lock, mixer lock
C35_SetcapsLockFirst ==
  \A i \in 1..Len(last.trace) :
    last.trace[i] = SetcapsLock => ~HeldAt(last.trace, i, "lock")

\* a caps event took the mixer lock, released it, and then took the setcaps
\* lock and the mixer lock inside it
C35_Witness ==
  /\ last.op = "caps"
  /\ last.ret = "TRUE"
  /\ last.trace[1] = Lock
  /\ \E i, j \in 1..Len(last.trace) :
       /\ i < j
       /\ last.trace[i] = SetcapsLock
       /\ last.trace[j] = Lock
       /\ HeldAt(last.trace, j, "setcaps_lock")

\* C36: the aggregate thread never takes the mixer lock while it holds it
C36_TickNeverLocksTwice ==
  last.op = "aggregate" =>
    \A i \in 1..Len(last.trace) :
      last.trace[i] = Lock => ~HeldAt(last.trace, i, "lock")

\* C37: a frame is painted with pixel primitives that are set and are those
\* of the output format
C37_PaintedWithFunctionsOfFormat ==
  (last.op = "aggregate" /\ last.outbuf.pushed) =>
    /\ mix.functions # "NULL"
    /\ mix.functions = mix.info.format

\* C38: after a flush-stop on a pad, and after a flushing seek on every
\* listed pad, the pad holds no queued buffer
C38_FlushDropsQueued ==
  [][/\ \A p \in PadIds : FlushStop(p) => ~pad'[p].queued.set
     /\ \A rate \in {1, 2} :
          Seek(rate, TRUE) => \A p \in PadIds : InList(p) => ~pad'[p].queued.set]_vars

\* the mixer runs, knows its output format and every pad has ended
Ended == mix.started /\ mix.info.format # UNKNOWN /\ AllEos

\* C39: once every pad is at end-of-stream and supplies no buffer, finitely
\* many ticks lead to the tick that returns EOS: a tick that does not return
\* EOS moves the output position forward or takes a buffer from a pad, so
\* that the next tick does not find the mixer as this one did
C39_TicksReachEos ==
  [][(Ended /\ Aggregate /\ last'.ret # "EOS") =>
       \/ mix'.segment.position # mix.segment.position
       \/ pad' # pad]_vars

\* C39 where the output segment has no stop
C39_TicksReachEosWithoutStop ==
  [][(Ended /\ mix.segment.stop = NONE /\ Aggregate /\ last'.ret # "EOS") =>
       \/ mix'.segment.position # mix.segment.position
       \/ pad' # pad]_vars

\* C40: a caps event that fails leaves the pad's info, the output info and
\* every pad's converter as they were
C40_FailedCapsChangeNothing ==
  [][\A p \in PadIds, info \in NegCaps :
       (CapsEvent(p, info) /\ last'.ret = "FALSE") =>
         /\ pad'[p].info = pad[p].info
         /\ mix'.info = mix.info
         /\ \A q \in PadIds : pad'[q].convert = pad[q].convert]_vars

====
